---- MODULE Spec2Model ----
(***************************************************************************)
(* A model of drogue-client's dialect / translator mechanism               *)
(* (src/translator.rs), of the dialect types stored through it             *)
(* (src/registry/v1/data, src/core/v1) and of the Conditions collection    *)
(* (src/core/v1/mod.rs).                                                   *)
(*                                                                         *)
(* A resource (Application, Device) carries two serde_json maps, `spec`    *)
(* and `status`.  JSON values are modelled structurally, and every dialect *)
(* type has an encoder (its Serialize impl) and a decoder (its Deserialize *)
(* impl) over that structure.                                              *)
(***************************************************************************)
EXTENDS Integers, Sequences, FiniteSets, TLC

(***************************************************************************)
(* Bounds of the model.                                                    *)
(***************************************************************************)
\* longest list a dialect value holds (anchors, credentials, conditions)
MaxLen == 1
\* latest instant (in seconds after the epoch) a timestamp holds
MaxInstant == 1

(***************************************************************************)
(* serde_json::Value.  Every value is a record of the same shape: k is the *)
(* kind, b / n / s the payload of a bool / number / string, a the elements *)
(* of an array or the entries of an object.  An object entry is a value of *)
(* kind "entry" holding the key in s and the entry's value in a[1].        *)
(***************************************************************************)
J(k, b, n, s, a) == [k |-> k, b |-> b, n |-> n, s |-> s, a |-> a]

JNull == J("null", FALSE, 0, "", <<>>)

JBool(x) == J("bool", x, 0, "", <<>>)

JNum(x) == J("number", FALSE, x, "", <<>>)

JStr(x) == J("string", FALSE, 0, x, <<>>)

JArr(xs) == J("array", FALSE, 0, "", xs)

Ent(key, v) == J("entry", FALSE, 0, key, <<v>>)

JObj(es) == J("object", FALSE, 0, "", es)

\* the result of Map::get on a key the map does not hold
Absent == J("absent", FALSE, 0, "", <<>>)

\* Map::get on a JSON object
Get(o, key) ==
    IF \E i \in 1..Len(o.a) : o.a[i].s = key
    THEN o.a[CHOOSE i \in 1..Len(o.a) : o.a[i].s = key].a[1]
    ELSE Absent

(***************************************************************************)
(* Result<T, serde_json::Error>                                            *)
(***************************************************************************)
Ok(v) == [ok |-> TRUE, v |-> v]

Err(msg) == [ok |-> FALSE, v |-> [ty |-> "Error", msg |-> msg]]

\* Option<String>
None == [some |-> FALSE, str |-> ""]

Some(x) == [some |-> TRUE, str |-> x]

(***************************************************************************)
(* Conversions of leaf values.                                             *)
(***************************************************************************)
\* the byte strings the model uses (Vec<u8>), by name
ByteStrings == {"", "A"}

\* base64::STANDARD encoding of a byte string
Base64Encode(bytes) == IF bytes = "A" THEN "QQ==" ELSE ""

\* base64::STANDARD decoding of a string
Base64Decode(str) ==
    IF \E b \in ByteStrings : Base64Encode(b) = str
    THEN Ok(CHOOSE b \in ByteStrings : Base64Encode(b) = str)
    ELSE Err("invalid base64")

\* the instants a DateTime<Utc> can print: seconds after the epoch
Instants == 0..MaxInstant

\* chrono's serialisation of a DateTime<Utc> (RFC 3339)
Rfc3339(t) ==
    "1970-01-01T00:00:" \o (IF t < 10 THEN "0" ELSE "") \o ToString(t) \o "Z"

\* chrono's parser of a DateTime<Utc>
ParseRfc3339(str) ==
    IF \E t \in Instants : Rfc3339(t) = str
    THEN Ok(CHOOSE t \in Instants : Rfc3339(t) = str)
    ELSE Err("invalid date")

(***************************************************************************)
(* What serde's derived Deserialize does with a struct: serde_json hands a *)
(* JSON object to visit_map (fields by name, unknown names ignored) and a  *)
(* JSON array to visit_seq (fields by position, surplus elements are an    *)
(* error); anything else is an invalid type.                               *)
(***************************************************************************)
\* the error of a decoder on a value it cannot take: a field that is not
\* there is a missing field, anything else has an invalid type
Invalid(j) ==
    IF j = Absent THEN Err("missing field") ELSE Err("invalid type")

StructShape(j, nfields) ==
    j.k = "object" \/ (j.k = "array" /\ Len(j.a) <= nfields)

FieldOf(j, name, idx) ==
    IF j.k = "object" THEN Get(j, name)
    ELSE IF idx <= Len(j.a) THEN j.a[idx] ELSE Absent

\* bool
DecBool(j) == IF j.k = "bool" THEN Ok(j.b) ELSE Invalid(j)

\* String
DecString(j) == IF j.k = "string" THEN Ok(j.s) ELSE Invalid(j)

\* Option<String>
DecOptString(j) ==
    IF j.k = "null" THEN Ok(None)
    ELSE IF j.k = "string" THEN Ok(Some(j.s)) ELSE Invalid(j)

\* Vec<T>, given the decoder's results for the elements
AllOk(rs) == \A i \in 1..Len(rs) : rs[i].ok

Values(rs) == [i \in 1..Len(rs) |-> rs[i].v]

\* the values when every result is Ok, the first error otherwise
Collect(rs) ==
    IF AllOk(rs) THEN Ok(Values(rs))
    ELSE rs[CHOOSE i \in 1..Len(rs) :
               ~rs[i].ok /\ \A k \in 1..(i - 1) : rs[k].ok]

\* a field with serde(default), or an Option: its default when it is missing
Defaulted(f, res, default) == IF f = Absent THEN Ok(default) ELSE res

\* #[serde(with = Base64Standard)] Vec<u8>
DecBase64(j) == IF j.k = "string" THEN Base64Decode(j.s) ELSE Invalid(j)

\* DateTime<Utc>
DecDateTime(j) == IF j.k = "string" THEN ParseRfc3339(j.s) ELSE Invalid(j)

(***************************************************************************)
(* The values of the dialect types and of their parts, as records.         *)
(***************************************************************************)
DeviceSpecCore(disabled) == [ty |-> "DeviceSpecCore", disabled |-> disabled]

ApplicationSpecTrustAnchorEntry(cert) == [certificate |-> cert]

ApplicationSpecTrustAnchors(anchors) ==
    [ty |-> "ApplicationSpecTrustAnchors", anchors |-> anchors]

AnchorValid(subject, cert, nb, na) ==
    [variant |-> "valid", subject |-> subject, certificate |-> cert,
     not_before |-> nb, not_after |-> na, error |-> "", message |-> ""]

AnchorInvalid(error, message) ==
    [variant |-> "invalid", subject |-> "", certificate |-> "",
     not_before |-> 0, not_after |-> 0, error |-> error, message |-> message]

ApplicationStatusTrustAnchors(anchors) ==
    [ty |-> "ApplicationStatusTrustAnchors", anchors |-> anchors]

Condition(ltt, message, reason, st, type) ==
    [last_transition_time |-> ltt, message |-> message, reason |-> reason,
     status |-> st, type |-> type]

Conditions(list) == [ty |-> "Conditions", list |-> list]

Password(variant, secret) == [pv |-> variant, secret |-> secret]

NoPassword == Password("", "")

\* Option<Validity>
NoValidity == [some |-> FALSE, not_before |-> 0, not_after |-> 0]

Validity(nb, na) == [some |-> TRUE, not_before |-> nb, not_after |-> na]

\* a Credential: cv is the variant's serde name
CredentialOf(cv, username, password, unique, cert, key, validity) ==
    [cv |-> cv, username |-> username, password |-> password,
     unique |-> unique, cert |-> cert, key |-> key, validity |-> validity]

UsernamePassword(username, password, unique) ==
    CredentialOf("user", username, password, unique, "", "", NoValidity)

PasswordCredential(password) ==
    CredentialOf("pass", "", password, FALSE, "", "", NoValidity)

Certificate(cert) ==
    CredentialOf("cert", "", NoPassword, FALSE, cert, "", NoValidity)

PreSharedKey(key, validity) ==
    CredentialOf("psk", "", NoPassword, FALSE, "", key, validity)

DeviceSpecCredentials(creds) ==
    [ty |-> "DeviceSpecCredentials", credentials |-> creds]

DeviceSpecAuthentication(creds) ==
    [ty |-> "DeviceSpecAuthentication", credentials |-> creds]

\* HashMap<String, String>: its entries <<key, value>>, in the order of the
\* keys
NoProperties == <<>>

ExternalKafkaSpec(servers, topic, properties) ==
    [bootstrap_servers |-> servers, topic |-> topic, properties |-> properties]

InternalSpec(password) == [password |-> password]

NoKafka == ExternalKafkaSpec("", "", NoProperties)

\* DownstreamSpec::ExternalKafka(kafka) and DownstreamSpec::Internal(internal)
ExternalKafka(kafka) ==
    [ty |-> "DownstreamSpec", variant |-> "ExternalKafka", kafka |-> kafka,
     internal |-> InternalSpec(None)]

Internal(internal) ==
    [ty |-> "DownstreamSpec", variant |-> "Internal", kafka |-> NoKafka,
     internal |-> internal]

\* the value of a type (or of an enum's variant) built from what its
\* visitor read: one value, or the fields in the order they are declared
DeviceSpecGatewaySelector(match_names) ==
    [ty |-> "DeviceSpecGatewaySelector", match_names |-> match_names]

Construct(T, v) ==
    CASE T = "DeviceSpecCore" -> DeviceSpecCore(v)
      [] T = "ApplicationSpecTrustAnchorEntry" ->
             ApplicationSpecTrustAnchorEntry(v)
      [] T = "ApplicationSpecTrustAnchors" -> ApplicationSpecTrustAnchors(v)
      [] T = "Valid" -> AnchorValid(v[1], v[2], v[3], v[4])
      [] T = "Invalid" -> AnchorInvalid(v[1], v[2])
      [] T = "ApplicationStatusTrustAnchors" ->
             ApplicationStatusTrustAnchors(v)
      [] T = "Condition" -> Condition(v[1], v[2], v[3], v[4], v[5])
      [] T = "Conditions" -> Conditions(v)
      [] T = "Validity" -> Validity(v[1], v[2])
      [] T = "UsernamePassword" -> UsernamePassword(v[1], v[2], v[3])
      [] T = "Password" -> PasswordCredential(v)
      [] T = "Certificate" -> Certificate(v)
      [] T = "PreSharedKey" -> PreSharedKey(v[1], v[2])
      [] T = "DeviceSpecCredentials" -> DeviceSpecCredentials(v)
      [] T = "DeviceSpecAuthentication" -> DeviceSpecAuthentication(v)
      [] T = "ExternalKafkaSpec" -> ExternalKafkaSpec(v[1], v[2], v[3])
      [] T = "InternalSpec" -> InternalSpec(v)
      [] T = "ExternalKafka" -> ExternalKafka(v)
      [] T = "Internal" -> Internal(v)
      [] T = "DeviceSpecGatewaySelector" -> DeviceSpecGatewaySelector(v)

\* Result::map: what was read, made the value of type T
ResultMap(res, T) == IF res.ok THEN Ok(Construct(T, res.v)) ELSE res

(***************************************************************************)
(* DeviceSpecCore: { #[serde(default, skip_serializing_if = is_default)]   *)
(* disabled: bool }                                                        *)
(***************************************************************************)
EncDeviceSpecCore(v) ==
    JObj(IF v.disabled = FALSE THEN <<>>
         ELSE <<Ent("disabled", JBool(v.disabled))>>)

DecDeviceSpecCore(j) ==
    IF ~StructShape(j, 1) THEN Invalid(j)
    ELSE ResultMap(Defaulted(FieldOf(j, "disabled", 1),
                             DecBool(FieldOf(j, "disabled", 1)), FALSE),
                   "DeviceSpecCore")

(***************************************************************************)
(* ApplicationSpecTrustAnchors: { #[serde(skip_serializing_if =            *)
(* Vec::is_empty)] anchors: Vec<ApplicationSpecTrustAnchorEntry> }; the    *)
(* field has no serde(default).  The entry is { #[serde(with =             *)
(* Base64Standard)] certificate: Vec<u8> }.                                *)
(***************************************************************************)
EncSpecAnchorEntry(e) ==
    JObj(<<Ent("certificate", JStr(Base64Encode(e.certificate)))>>)

DecSpecAnchorEntry(j) ==
    IF ~StructShape(j, 1) THEN Invalid(j)
    ELSE ResultMap(DecBase64(FieldOf(j, "certificate", 1)),
                   "ApplicationSpecTrustAnchorEntry")

EncApplicationSpecTrustAnchors(v) ==
    JObj(IF v.anchors = <<>> THEN <<>>
         ELSE <<Ent("anchors",
                    JArr([i \in 1..Len(v.anchors) |->
                             EncSpecAnchorEntry(v.anchors[i])]))>>)

\* Vec<ApplicationSpecTrustAnchorEntry>
DecSpecAnchorEntries(j) ==
    IF j.k = "array"
    THEN Collect([i \in 1..Len(j.a) |-> DecSpecAnchorEntry(j.a[i])])
    ELSE Invalid(j)

DecApplicationSpecTrustAnchors(j) ==
    IF ~StructShape(j, 1) THEN Invalid(j)
    ELSE ResultMap(DecSpecAnchorEntries(FieldOf(j, "anchors", 1)),
                   "ApplicationSpecTrustAnchors")

(***************************************************************************)
(* ApplicationStatusTrustAnchors: { anchors: Vec<entry> }, always emitted. *)
(* The entry is an externally tagged enum, camelCase:                      *)
(*   Valid { subject, certificate (base64), notBefore, notAfter }          *)
(*   Invalid { error, message }                                            *)
(***************************************************************************)
EncStatusAnchorEntry(e) ==
    IF e.variant = "valid"
    THEN JObj(<<Ent("valid",
                    JObj(<<Ent("subject", JStr(e.subject)),
                           Ent("certificate", JStr(Base64Encode(e.certificate))),
                           Ent("notBefore", JStr(Rfc3339(e.not_before))),
                           Ent("notAfter", JStr(Rfc3339(e.not_after)))>>))>>)
    ELSE JObj(<<Ent("invalid",
                    JObj(<<Ent("error", JStr(e.error)),
                           Ent("message", JStr(e.message))>>))>>)

\* a struct variant is read from a JSON object only
DecAnchorValid(c) ==
    IF c.k # "object" THEN Invalid(c)
    ELSE ResultMap(Collect(<<DecString(Get(c, "subject")),
                             DecBase64(Get(c, "certificate")),
                             DecDateTime(Get(c, "notBefore")),
                             DecDateTime(Get(c, "notAfter"))>>),
                   "Valid")

DecAnchorInvalid(c) ==
    IF c.k # "object" THEN Invalid(c)
    ELSE ResultMap(Collect(<<DecString(Get(c, "error")),
                             DecString(Get(c, "message"))>>),
                   "Invalid")

\* an externally tagged enum is read from an object with a single key
DecStatusAnchorEntry(j) ==
    IF j.k # "object" \/ Len(j.a) # 1 THEN Err("invalid type")
    ELSE IF j.a[1].s = "valid" THEN DecAnchorValid(j.a[1].a[1])
    ELSE IF j.a[1].s = "invalid" THEN DecAnchorInvalid(j.a[1].a[1])
    ELSE Err("unknown variant")

EncApplicationStatusTrustAnchors(v) ==
    JObj(<<Ent("anchors",
               JArr([i \in 1..Len(v.anchors) |->
                        EncStatusAnchorEntry(v.anchors[i])]))>>)

\* Vec<ApplicationStatusTrustAnchorEntry>
DecStatusAnchorEntries(j) ==
    IF j.k = "array"
    THEN Collect([i \in 1..Len(j.a) |-> DecStatusAnchorEntry(j.a[i])])
    ELSE Invalid(j)

DecApplicationStatusTrustAnchors(j) ==
    IF ~StructShape(j, 1) THEN Invalid(j)
    ELSE ResultMap(DecStatusAnchorEntries(FieldOf(j, "anchors", 1)),
                   "ApplicationStatusTrustAnchors")

(***************************************************************************)
(* Condition and Conditions (src/core/v1/mod.rs).  message and reason are  *)
(* Option<String> with serde(default, skip_serializing_if = is_empty);     *)
(* status defaults to "Unknown"; Conditions is a newtype over the list and *)
(* is written as a bare JSON array.                                        *)
(***************************************************************************)
CONDITION_READY == "Ready"

is_empty(value) == ~value.some \/ value.str = ""

default_condition_status == "Unknown"

EncCondition(c) ==
    JObj(<<Ent("lastTransitionTime", JStr(Rfc3339(c.last_transition_time)))>>
         \o (IF is_empty(c.message) THEN <<>>
             ELSE <<Ent("message", JStr(c.message.str))>>)
         \o (IF is_empty(c.reason) THEN <<>>
             ELSE <<Ent("reason", JStr(c.reason.str))>>)
         \o <<Ent("status", JStr(c.status)), Ent("type", JStr(c.type))>>)

DecCondition(j) ==
    IF ~StructShape(j, 5) THEN Invalid(j)
    ELSE ResultMap(
             Collect(<<DecDateTime(FieldOf(j, "lastTransitionTime", 1)),
                       Defaulted(FieldOf(j, "message", 2),
                                 DecOptString(FieldOf(j, "message", 2)), None),
                       Defaulted(FieldOf(j, "reason", 3),
                                 DecOptString(FieldOf(j, "reason", 3)), None),
                       Defaulted(FieldOf(j, "status", 4),
                                 DecString(FieldOf(j, "status", 4)),
                                 default_condition_status),
                       DecString(FieldOf(j, "type", 5))>>),
             "Condition")

EncConditions(v) ==
    JArr([i \in 1..Len(v.list) |-> EncCondition(v.list[i])])

\* Vec<Condition>
DecConditionList(j) ==
    IF j.k = "array"
    THEN Collect([i \in 1..Len(j.a) |-> DecCondition(j.a[i])])
    ELSE Invalid(j)

DecConditions(j) == ResultMap(DecConditionList(j), "Conditions")

(***************************************************************************)
(* The methods of Conditions.  An Option<bool> is "Some(true)",            *)
(* "Some(false)" or "None"; t is what Utc::now() returns during the call.  *)
(***************************************************************************)
OptionBool == {"Some(true)", "Some(false)", "None"}

ConditionStatus(st, reason, message) ==
    [status |-> st, reason |-> reason, message |-> message]

make_status(st) ==
    CASE st = "Some(true)" -> "True"
      [] st = "Some(false)" -> "False"
      [] OTHER -> "Unknown"

\* the position of the first condition of the type, 0 when there is none
FirstOf(list, type) ==
    IF \E i \in 1..Len(list) : list[i].type = type
    THEN CHOOSE i \in 1..Len(list) :
            /\ list[i].type = type
            /\ \A j \in 1..(i - 1) : list[j].type # type
    ELSE 0

\* mutant of update: the transition time is set on every update
update_always_stamps(list, type, cs, t) ==
    LET i == FirstOf(list, type) IN
    IF i # 0
    THEN [list EXCEPT ![i] = Condition(t, cs.message, cs.reason,
                                       make_status(cs.status), type)]
    ELSE Append(list, Condition(t, cs.message, cs.reason,
                                make_status(cs.status), type))

\* mutant of update: reason and message are kept while the status stays
update_keeps_reason(list, type, cs, t) ==
    LET i == FirstOf(list, type) IN
    IF i # 0
    THEN IF list[i].status # make_status(cs.status)
         THEN [list EXCEPT ![i] = Condition(t, cs.message, cs.reason,
                                            make_status(cs.status), type)]
         ELSE list
    ELSE Append(list, Condition(t, cs.message, cs.reason,
                                make_status(cs.status), type))

update(list, type, cs, t) ==
    LET str_status == make_status(cs.status)
        i == FirstOf(list, type)
    IN  IF i # 0
        THEN [list EXCEPT ![i] =
                 Condition(IF @.status # str_status THEN t
                           ELSE @.last_transition_time,
                           cs.message, cs.reason,
                           IF @.status # str_status THEN str_status
                           ELSE @.status,
                           @.type)]
        ELSE Append(list, Condition(t, cs.message, cs.reason, str_status, type))

\* the loop of aggregate_ready from position i on: it skips the Ready
\* condition and stops at the first condition that is not "True"
RECURSIVE ReadyFrom(_, _)
ReadyFrom(list, i) ==
    IF i > Len(list) THEN TRUE
    ELSE IF list[i].type = CONDITION_READY THEN ReadyFrom(list, i + 1)
    ELSE IF list[i].status # "True" THEN FALSE
    ELSE ReadyFrom(list, i + 1)

\* mutant of aggregate_ready: only a "False" condition makes it not ready
aggregate_ready_lax(list, t) ==
    update(list, CONDITION_READY,
           IF \A i \in 1..Len(list) :
                 list[i].type = CONDITION_READY \/ list[i].status # "False"
           THEN ConditionStatus("Some(true)", None, None)
           ELSE ConditionStatus("Some(false)", Some("NonReadyConditions"), None),
           t)

aggregate_ready(list, t) ==
    update(list, CONDITION_READY,
           IF ReadyFrom(list, 1)
           THEN ConditionStatus("Some(true)", None, None)
           ELSE ConditionStatus("Some(false)", Some("NonReadyConditions"), None),
           t)

\* Vec::retain(|c| c.type != type)
RECURSIVE Retain(_, _)
Retain(list, type) ==
    IF list = <<>> THEN <<>>
    ELSE IF Head(list).type # type
    THEN <<Head(list)>> \o Retain(Tail(list), type)
    ELSE Retain(Tail(list), type)

\* mutant of clear_ready: the Ready condition is left as it was
clear_ready_stale(list, type, t) == Retain(list, type)

clear_ready(list, type, t) == aggregate_ready(Retain(list, type), t)

(***************************************************************************)
(* Password, Validity, PreSharedKey and Credential                         *)
(* (src/registry/v1/data/device/mod.rs).                                   *)
(***************************************************************************)
\* mutant of EncPassword: a plain password is written as a bare string
EncPassword_legacy(p) ==
    IF p.pv = "plain" THEN JStr(p.secret)
    ELSE JObj(<<Ent(p.pv, JStr(p.secret))>>)

\* derived Serialize of the enum: always the tagged object
EncPassword(p) == JObj(<<Ent(p.pv, JStr(p.secret))>>)

\* PasswordVisitor: a string is Plain; a map is read by its first key, and
\* serde_json rejects a map that has entries left after the visitor returns
DecPassword(j) ==
    IF j.k = "string" THEN Ok(Password("plain", j.s))
    ELSE IF j.k # "object" THEN Err("invalid type")
    ELSE IF Len(j.a) = 0 THEN Err("invalid length 0")
    ELSE IF j.a[1].s \notin {"plain", "bcrypt", "sha512"}
    THEN Err("unknown field")
    ELSE IF j.a[1].a[1].k # "string" THEN Err("invalid type")
    ELSE IF Len(j.a) > 1 THEN Err("invalid length")
    ELSE Ok(Password(j.a[1].s, j.a[1].a[1].s))

EncValidity(v) ==
    JObj(<<Ent("notBefore", JStr(Rfc3339(v.not_before))),
           Ent("notAfter", JStr(Rfc3339(v.not_after)))>>)

DecValidity(j) ==
    IF ~StructShape(j, 2) THEN Invalid(j)
    ELSE ResultMap(Collect(<<DecDateTime(FieldOf(j, "notBefore", 1)),
                             DecDateTime(FieldOf(j, "notAfter", 2))>>),
                   "Validity")

\* Option<Validity>
DecOptionValidity(j) == IF j.k = "null" THEN Ok(NoValidity) ELSE DecValidity(j)

EncCredential(c) ==
    JObj(<<Ent(c.cv,
               CASE c.cv = "user" ->
                        JObj(<<Ent("username", JStr(c.username)),
                               Ent("password", EncPassword(c.password)),
                               Ent("unique", JBool(c.unique))>>)
                 [] c.cv = "pass" -> EncPassword(c.password)
                 [] c.cv = "cert" -> JStr(c.cert)
                 [] OTHER ->
                        JObj(<<Ent("key", JStr(Base64Encode(c.key)))>>
                             \o (IF c.validity.some
                                 THEN <<Ent("validity", EncValidity(c.validity))>>
                                 ELSE <<>>)))>>)

\* the struct variant `user`, read from a JSON object only
DecUsernamePassword(c) ==
    IF c.k # "object" THEN Invalid(c)
    ELSE ResultMap(Collect(<<DecString(Get(c, "username")),
                             DecPassword(Get(c, "password")),
                             Defaulted(Get(c, "unique"),
                                       DecBool(Get(c, "unique")), FALSE)>>),
                   "UsernamePassword")

\* the newtype variant `psk`: the PreSharedKey struct
DecPreSharedKey(c) ==
    IF ~StructShape(c, 2) THEN Invalid(c)
    ELSE ResultMap(
             Collect(<<DecBase64(FieldOf(c, "key", 1)),
                       Defaulted(FieldOf(c, "validity", 2),
                                 DecOptionValidity(FieldOf(c, "validity", 2)),
                                 NoValidity)>>),
             "PreSharedKey")

DecCredential(j) ==
    IF j.k # "object" \/ Len(j.a) # 1 THEN Invalid(j)
    ELSE CASE j.a[1].s = "user" -> DecUsernamePassword(j.a[1].a[1])
           [] j.a[1].s = "pass" ->
                  ResultMap(DecPassword(j.a[1].a[1]), "Password")
           [] j.a[1].s = "cert" ->
                  ResultMap(DecString(j.a[1].a[1]), "Certificate")
           [] j.a[1].s = "psk" -> DecPreSharedKey(j.a[1].a[1])
           [] OTHER -> Err("unknown variant")

\* the field `credentials` of DeviceSpecCredentials and of
\* DeviceSpecAuthentication: serde(default), skipped when empty
EncCredentialList(creds) ==
    JObj(IF creds = <<>> THEN <<>>
         ELSE <<Ent("credentials",
                    JArr([i \in 1..Len(creds) |-> EncCredential(creds[i])]))>>)

\* Vec<Credential>
DecCredentials(j) ==
    IF j.k = "array"
    THEN Collect([i \in 1..Len(j.a) |-> DecCredential(j.a[i])])
    ELSE Invalid(j)

DecCredentialList(j) ==
    IF ~StructShape(j, 1) THEN Invalid(j)
    ELSE Defaulted(FieldOf(j, "credentials", 1),
                   DecCredentials(FieldOf(j, "credentials", 1)), <<>>)

EncDeviceSpecCredentials(v) == EncCredentialList(v.credentials)

DecDeviceSpecCredentials(j) ==
    ResultMap(DecCredentialList(j), "DeviceSpecCredentials")

EncDeviceSpecAuthentication(v) == EncCredentialList(v.credentials)

DecDeviceSpecAuthentication(j) ==
    ResultMap(DecCredentialList(j), "DeviceSpecAuthentication")

(***************************************************************************)
(* DownstreamSpec (src/registry/v1/data/app/downstream.rs): an enum with a *)
(* Serialize and a Deserialize of its own.  ExternalKafkaSpec is           *)
(* { bootstrapServers, topic, #[serde(default)] properties } and           *)
(* InternalSpec is { #[serde(default, skip_serializing_if = is_none)]      *)
(* password: Option<String> }.                                             *)
(***************************************************************************)
EncProperties(m) ==
    JObj([i \in 1..Len(m) |-> Ent(m[i][1], JStr(m[i][2]))])

\* serde_json hands the entries of an object in the order of their keys
DecProperties(j) ==
    IF j.k = "object"
    THEN Collect([i \in 1..Len(j.a) |->
                     IF j.a[i].a[1].k = "string"
                     THEN Ok(<<j.a[i].s, j.a[i].a[1].s>>)
                     ELSE Invalid(j.a[i].a[1])])
    ELSE Invalid(j)

EncExternalKafkaSpec(k) ==
    JObj(<<Ent("bootstrapServers", JStr(k.bootstrap_servers)),
           Ent("topic", JStr(k.topic)),
           Ent("properties", EncProperties(k.properties))>>)

DecExternalKafkaSpec(j) ==
    IF ~StructShape(j, 3) THEN Invalid(j)
    ELSE ResultMap(
             Collect(<<DecString(FieldOf(j, "bootstrapServers", 1)),
                       DecString(FieldOf(j, "topic", 2)),
                       Defaulted(FieldOf(j, "properties", 3),
                                 DecProperties(FieldOf(j, "properties", 3)),
                                 NoProperties)>>),
             "ExternalKafkaSpec")

EncInternalSpec(i) ==
    JObj(IF i.password.some THEN <<Ent("password", JStr(i.password.str))>>
         ELSE <<>>)

DecInternalSpec(j) ==
    IF ~StructShape(j, 1) THEN Invalid(j)
    ELSE ResultMap(Defaulted(FieldOf(j, "password", 1),
                             DecOptString(FieldOf(j, "password", 1)), None),
                   "InternalSpec")

\* mutant of EncDownstreamSpec: the internal variant is always written
EncDownstreamSpec_explicit(v) ==
    JObj(IF v.variant = "ExternalKafka"
         THEN <<Ent("externalKafka", EncExternalKafkaSpec(v.kafka))>>
         ELSE <<Ent("internal", EncInternalSpec(v.internal))>>)

\* impl Serialize for DownstreamSpec: a struct with the fields it writes
EncDownstreamSpec(v) ==
    JObj(IF v.variant = "ExternalKafka"
         THEN <<Ent("externalKafka", EncExternalKafkaSpec(v.kafka))>>
         ELSE IF v.internal # InternalSpec(None)
         THEN <<Ent("internal", EncInternalSpec(v.internal))>>
         ELSE <<>>)

\* VariantVisitor::visit_str
Variant(value) ==
    IF value = "externalKafka" THEN "ExternalKafka" ELSE "Internal"

\* mutant of visit_map: every key names the internal variant
visit_map_internal(entries) ==
    IF Len(entries) = 0 THEN Ok(Internal(InternalSpec(None)))
    ELSE ResultMap(DecInternalSpec(entries[1].a[1]), "Internal")

\* ValueVisitor::visit_map on the entries of the object: it reads the first
\* key and that key's value
visit_map(entries) ==
    IF Len(entries) = 0 THEN Ok(Internal(InternalSpec(None)))
    ELSE IF Variant(entries[1].s) = "ExternalKafka"
    THEN ResultMap(DecExternalKafkaSpec(entries[1].a[1]), "ExternalKafka")
    ELSE ResultMap(DecInternalSpec(entries[1].a[1]), "Internal")

\* serde_json's deserialize_map: it takes an object only, and makes it an
\* error when the visitor returns Ok and has left entries unread
deserialize_map(j, visited) ==
    IF j.k # "object" THEN Invalid(j)
    ELSE IF visited.ok /\ Len(j.a) > 1 THEN Err("invalid length")
    ELSE visited

DecDownstreamSpec(j) == deserialize_map(j, visit_map(j.a))

(***************************************************************************)
(* The Dialect trait: each dialect type names its section and its key.     *)
(***************************************************************************)
(* DeviceSpecGatewaySelector: #[serde(rename_all = "camelCase")]           *)
(* { #[serde(default, skip_serializing_if = Vec::is_empty)]                *)
(* match_names: Vec<String> }                                              *)
(***************************************************************************)
EncDeviceSpecGatewaySelector(v) ==
    JObj(IF v.match_names = <<>> THEN <<>>
         ELSE <<Ent("matchNames",
                    JArr([i \in 1..Len(v.match_names) |->
                             JStr(v.match_names[i])]))>>)

\* Vec<String>
DecStrings(j) ==
    IF j.k = "array"
    THEN Collect([i \in 1..Len(j.a) |-> DecString(j.a[i])])
    ELSE Invalid(j)

DecDeviceSpecGatewaySelector(j) ==
    IF ~StructShape(j, 1) THEN Invalid(j)
    ELSE ResultMap(Defaulted(FieldOf(j, "matchNames", 1),
                             DecStrings(FieldOf(j, "matchNames", 1)), <<>>),
                   "DeviceSpecGatewaySelector")

(***************************************************************************)
Dialects ==
    {"DeviceSpecCore", "ApplicationSpecTrustAnchors",
     "ApplicationStatusTrustAnchors", "Conditions",
     "DeviceSpecCredentials", "DeviceSpecAuthentication", "DownstreamSpec",
     "DeviceSpecGatewaySelector"}

DialectKey(D) ==
    CASE D = "DeviceSpecCore" -> "core"
      [] D = "ApplicationSpecTrustAnchors" -> "trustAnchors"
      [] D = "ApplicationStatusTrustAnchors" -> "trustAnchors"
      [] D = "Conditions" -> "conditions"
      [] D = "DeviceSpecCredentials" -> "credentials"
      [] D = "DeviceSpecAuthentication" -> "authentication"
      [] D = "DownstreamSpec" -> "downstream"
      [] D = "DeviceSpecGatewaySelector" -> "gatewaySelector"

DialectSection(D) ==
    IF D \in {"ApplicationStatusTrustAnchors", "Conditions"}
    THEN "Status" ELSE "Spec"

\* D::default()
Default(D) ==
    CASE D = "DeviceSpecCore" -> DeviceSpecCore(FALSE)
      [] D = "ApplicationSpecTrustAnchors" -> ApplicationSpecTrustAnchors(<<>>)
      [] D = "ApplicationStatusTrustAnchors" ->
             ApplicationStatusTrustAnchors(<<>>)
      [] D = "Conditions" -> Conditions(<<>>)
      [] D = "DeviceSpecCredentials" -> DeviceSpecCredentials(<<>>)
      [] D = "DeviceSpecAuthentication" -> DeviceSpecAuthentication(<<>>)
      [] D = "DownstreamSpec" -> Internal(InternalSpec(None))
      [] D = "DeviceSpecGatewaySelector" -> DeviceSpecGatewaySelector(<<>>)

\* serde_json::to_value(d); none of the dialect types has a value that
\* fails to serialise
to_value(v) ==
    Ok(CASE v.ty = "DeviceSpecCore" -> EncDeviceSpecCore(v)
         [] v.ty = "ApplicationSpecTrustAnchors" ->
                EncApplicationSpecTrustAnchors(v)
         [] v.ty = "ApplicationStatusTrustAnchors" ->
                EncApplicationStatusTrustAnchors(v)
         [] v.ty = "Conditions" -> EncConditions(v)
         [] v.ty = "DeviceSpecCredentials" -> EncDeviceSpecCredentials(v)
         [] v.ty = "DeviceSpecAuthentication" ->
                EncDeviceSpecAuthentication(v)
         [] v.ty = "DownstreamSpec" -> EncDownstreamSpec(v)
         [] v.ty = "DeviceSpecGatewaySelector" ->
                EncDeviceSpecGatewaySelector(v))

\* serde_json::from_value::<T>(value)
from_value(T, j) ==
    CASE T = "DeviceSpecCore" -> DecDeviceSpecCore(j)
      [] T = "ApplicationSpecTrustAnchors" -> DecApplicationSpecTrustAnchors(j)
      [] T = "ApplicationStatusTrustAnchors" ->
             DecApplicationStatusTrustAnchors(j)
      [] T = "Conditions" -> DecConditions(j)
      [] T = "DeviceSpecCredentials" -> DecDeviceSpecCredentials(j)
      [] T = "DeviceSpecAuthentication" -> DecDeviceSpecAuthentication(j)
      [] T = "DownstreamSpec" -> DecDownstreamSpec(j)
      [] T = "DeviceSpecGatewaySelector" -> DecDeviceSpecGatewaySelector(j)

(***************************************************************************)
(* The Translator trait (src/translator.rs) over a resource                *)
(* r = [spec |-> map, status |-> map]; a map is a function from the keys   *)
(* to JSON values, Absent where the map has no entry.                      *)
(***************************************************************************)
Keys ==
    {"core", "trustAnchors", "conditions", "credentials", "authentication",
     "downstream", "gatewaySelector"}

EmptyMap == [k \in Keys |-> Absent]

Resource(sp, st) == [spec |-> sp, status |-> st]

\* Option<Result<T, Error>>
SectionNone == [some |-> FALSE, res |-> Err("")]

SectionSome(res) == [some |-> TRUE, res |-> res]

spec_for(r, T, key) ==
    IF r.spec[key] = Absent THEN SectionNone
    ELSE SectionSome(from_value(T, r.spec[key]))

status_for(r, T, key) ==
    IF r.status[key] = Absent THEN SectionNone
    ELSE SectionSome(from_value(T, r.status[key]))

\* mutant of section: the dialect's declared section is ignored
section_spec_only(r, D) == spec_for(r, D, DialectKey(D))

section(r, D) ==
    IF DialectSection(D) = "Spec" THEN spec_for(r, D, DialectKey(D))
    ELSE status_for(r, D, DialectKey(D))

\* the resource after, the Result returned, and how often f was called
Outcome(r, ret, fcalls) == [r |-> r, ret |-> ret, fcalls |-> fcalls]

Unit == [ty |-> "()"]

\* the insert of set_section, given what to_value returned
Store(r, D, v) ==
    IF ~v.ok THEN Outcome(r, v, 0)
    ELSE IF DialectSection(D) = "Spec"
    THEN Outcome(Resource([r.spec EXCEPT ![DialectKey(D)] = v.v], r.status),
                 Ok(Unit), 0)
    ELSE Outcome(Resource(r.spec, [r.status EXCEPT ![DialectKey(D)] = v.v]),
                 Ok(Unit), 0)

set_section(r, d) == Store(r, d.ty, to_value(d))

\* the functions handed to update_section, by name: "id" returns its
\* argument, "reset" returns the default, "grow" disables the device or
\* pushes one element on the list (on a list of MaxLen elements it returns
\* its argument) or makes the downstream the internal one with a password
Fs == {"id", "grow", "reset"}

GrowElement(D) ==
    CASE D = "ApplicationSpecTrustAnchors" ->
             ApplicationSpecTrustAnchorEntry("A")
      [] D = "ApplicationStatusTrustAnchors" -> AnchorInvalid("e", "m")
      [] D = "Conditions" -> Condition(1, None, None, "True", "KafkaReady")
      [] D = "DeviceSpecCredentials" ->
             PasswordCredential(Password("plain", "foo"))
      [] D = "DeviceSpecAuthentication" ->
             PasswordCredential(Password("plain", "foo"))

Push(list, e) == IF Len(list) < MaxLen THEN Append(list, e) ELSE list

\* the closures add_credential hands to update_section, by name, and the
\* credential each has captured
PushFs == {"push_password", "push_psk", "push_cert", "push_user"}

Pushed(f) ==
    CASE f = "push_password" ->
             PasswordCredential(Password("plain", "very_secret"))
      [] f = "push_psk" -> PreSharedKey("A", NoValidity)
      [] f = "push_cert" -> Certificate("cert")
      [] f = "push_user" ->
             UsernamePassword("foo", Password("bcrypt", "bar"), TRUE)

Apply(f, d) ==
    CASE f = "id" -> d
      [] f \in PushFs -> [d EXCEPT !.credentials = Append(@, Pushed(f))]
      [] f = "reset" -> Default(d.ty)
      [] f = "grow" ->
             CASE d.ty = "DeviceSpecCore" -> DeviceSpecCore(TRUE)
               [] d.ty \in {"ApplicationSpecTrustAnchors",
                            "ApplicationStatusTrustAnchors"} ->
                      [d EXCEPT !.anchors = Push(@, GrowElement(d.ty))]
               [] d.ty = "Conditions" ->
                      [d EXCEPT !.list = Push(@, GrowElement(d.ty))]
               [] d.ty = "DownstreamSpec" ->
                      Internal(InternalSpec(Some("foobar")))
               [] OTHER ->
                      [d EXCEPT !.credentials = Push(@, GrowElement(d.ty))]

\* the match of update_section on what section::<D>() returned
UpdateMatch(r, D, f, cur) ==
    IF cur.some /\ ~cur.res.ok THEN Outcome(r, cur.res, 0)
    ELSE [set_section(r, Apply(f, IF cur.some THEN cur.res.v ELSE Default(D)))
             EXCEPT !.fcalls = 1]

\* mutant of update_section: an absent section stores the default as it is
update_section_skips_f(r, D, f) ==
    LET cur == section(r, D) IN
    IF cur.some /\ ~cur.res.ok THEN Outcome(r, cur.res, 0)
    ELSE LET s == IF cur.some THEN Apply(f, cur.res.v) ELSE Default(D)
             o == set_section(r, s)
         IN  Outcome(o.r, o.ret, IF cur.some THEN 1 ELSE 0)

\* mutant of update_section: a malformed section is treated as an absent one
update_section_lenient(r, D, f) ==
    LET cur == section(r, D)
        s == Apply(f, IF cur.some /\ cur.res.ok THEN cur.res.v ELSE Default(D))
        o == set_section(r, s)
    IN  Outcome(o.r, o.ret, 1)

update_section(r, D, f) == UpdateMatch(r, D, f, section(r, D))

\* mutant of clear_section: the key is removed from both maps
clear_section_both(r, D) ==
    Resource([r.spec EXCEPT ![DialectKey(D)] = Absent],
             [r.status EXCEPT ![DialectKey(D)] = Absent])

\* mutant of clear_section: the key is always removed from spec
clear_section_spec(r, D) ==
    Resource([r.spec EXCEPT ![DialectKey(D)] = Absent], r.status)

clear_section(r, D) ==
    IF DialectSection(D) = "Spec"
    THEN Resource([r.spec EXCEPT ![DialectKey(D)] = Absent], r.status)
    ELSE Resource(r.spec, [r.status EXCEPT ![DialectKey(D)] = Absent])

\* mutant of DeviceEnabled_extract: a core section that does not decode is
\* taken for an absent one
DeviceEnabled_extract_lenient(core) ==
    IF core.some /\ core.res.ok THEN core.res.v.disabled ELSE TRUE

\* attribute!(DeviceSpecCore[DeviceEnabled:bool])
DeviceEnabled_extract(core) ==
    IF ~core.some THEN TRUE
    ELSE IF ~core.res.ok THEN FALSE
    ELSE core.res.v.disabled

attribute_DeviceEnabled(r) ==
    DeviceEnabled_extract(section(r, "DeviceSpecCore"))

\* mutant of ValidateMatch: a core section that does not decode is taken
\* for an absent one
ValidateMatch_lenient(core) ==
    IF core.some /\ core.res.ok THEN ~core.res.v.disabled ELSE TRUE

\* the match of validate_device on what section::<DeviceSpecCore>() returned
ValidateMatch(core) ==
    IF core.some /\ core.res.ok THEN ~core.res.v.disabled
    ELSE IF core.some THEN FALSE
    ELSE TRUE

validate_device(r) == ValidateMatch(section(r, "DeviceSpecCore"))

\* mutant of AddAuthentication: the second closure returns the section as
\* it found it
AddAuthentication_unpushed(first, f) ==
    IF ~first.ret.ok THEN first
    ELSE update_section(first.r, "DeviceSpecAuthentication", "id")

\* the second update_section of add_credential, after the `?` on the first
AddAuthentication(first, f) ==
    IF ~first.ret.ok THEN first
    ELSE update_section(first.r, "DeviceSpecAuthentication", f)

\* mutant of add_credential: only the credentials section is updated
add_credential_once(r, f) == update_section(r, "DeviceSpecCredentials", f)

\* Device::add_credential with the closure that pushes the credential
add_credential(r, f) ==
    AddAuthentication(update_section(r, "DeviceSpecCredentials", f), f)

\* Option<Vec<Credential>>
NoCredentials == [some |-> FALSE, list |-> <<>>]

SomeCredentials(list) == [some |-> TRUE, list |-> list]

\* the matches of get_credentials on what the two lookups returned
CredentialsMatch(auth, creds) ==
    IF auth.some /\ auth.res.ok THEN SomeCredentials(auth.res.v.credentials)
    ELSE IF creds.some /\ creds.res.ok
    THEN SomeCredentials(creds.res.v.credentials)
    ELSE NoCredentials

get_credentials(r) ==
    CredentialsMatch(section(r, "DeviceSpecAuthentication"),
                     section(r, "DeviceSpecCredentials"))

(***************************************************************************)
(* The state: one resource (its kind, Application or Device, and its two   *)
(* maps), the record of the last call on it,                               *)
(* a Conditions collection with the clock its updates read, the record of   *)
(* the last call on the collection, and the record of the last call of a   *)
(* function that takes no resource and no collection.                      *)
(***************************************************************************)
VARIABLES kind, spec, status, last, conds, now, cond_last, call, finalizers

vars == <<kind, spec, status, last, conds, now, cond_last, call, finalizers>>

res_vars == <<kind, spec, status, last>>

cond_vars == <<conds, now, cond_last>>

Self == Resource(spec, status)

NoValue == [ty |-> "-"]

\* what section::<D>() gives on r, in a word
WasMatch(s) ==
    IF ~s.some THEN "absent"
    ELSE IF s.res.ok THEN "decoded" ELSE "malformed"

Was(r, D) == WasMatch(section(r, D))

\* a call: the operation, the dialect (or type) and key it names, the
\* function and the value handed to it, what the dialect's section was when
\* it was made, the Result it returned, how often it called the function,
\* and what a read returned
Call(op, d, key, f, arg, was, ret, fcalls, out) ==
    [op |-> op, d |-> d, key |-> key, f |-> f, arg |-> arg, was |-> was,
     ret |-> ret, fcalls |-> fcalls, out |-> out]

\* a call on the collection: the method, the type and the ConditionStatus
\* handed to it, and whether the collection held a condition of the type
CondCall(op, type, cs, found, before) ==
    [op |-> op, type |-> type, cs |-> cs, found |-> found, before |-> before]

\* the status of the first condition of the type, "" when there is none
StatusOf(list, type) ==
    IF FirstOf(list, type) = 0 THEN "" ELSE list[FirstOf(list, type)].status

NoStatus == ConditionStatus("None", None, None)

\* a call of a function: its name, its argument and what it returned
FnCall(fn, arg, out) == [fn |-> fn, arg |-> arg, out |-> out]

\* the values of each dialect type the calls are made with
ListsOf(S) == UNION {[1..n -> S] : n \in 0..MaxLen}

SomeConditions ==
    {Condition(0, m, None, "True", "KafkaReady") :
        m \in {None, Some(""), Some("msg")}}

SomeCredentialValues ==
    {PasswordCredential(Password("plain", "foo")), Certificate("cert")}

DialectValues(D) ==
    CASE D = "DeviceSpecCore" -> {DeviceSpecCore(b) : b \in BOOLEAN}
      [] D = "ApplicationSpecTrustAnchors" ->
             {ApplicationSpecTrustAnchors(l) :
                 l \in ListsOf({ApplicationSpecTrustAnchorEntry("A")})}
      [] D = "ApplicationStatusTrustAnchors" ->
             {ApplicationStatusTrustAnchors(l) :
                 l \in ListsOf({AnchorInvalid("e", "m")})}
      [] D = "Conditions" -> {Conditions(l) : l \in ListsOf(SomeConditions)}
      [] D = "DeviceSpecCredentials" ->
             {DeviceSpecCredentials(l) : l \in ListsOf(SomeCredentialValues)}
      [] D = "DeviceSpecAuthentication" ->
             {DeviceSpecAuthentication(l) :
                 l \in ListsOf(SomeCredentialValues)}
      [] D = "DownstreamSpec" ->
             {ExternalKafka(ExternalKafkaSpec(b, t, m)) :
                 b \in {"server", "server1:9091"}, t \in {"", "topic"},
                 m \in {NoProperties, <<<<"foo.bar", "baz">>>>}}
             \cup {Internal(InternalSpec(pw)) :
                      pw \in {None, Some(""), Some("foobar")}}

\* the dialect types of each kind of resource
DialectsOf(k) ==
    IF k = "Application"
    THEN {"ApplicationSpecTrustAnchors", "ApplicationStatusTrustAnchors",
          "Conditions"}
    ELSE {"DeviceSpecCore", "DeviceSpecCredentials",
          "DeviceSpecAuthentication"}

\* the keys under which a service response (or a caller, through spec_mut
\* and status_mut) puts a JSON value of its own, and those values
SpecKeys(k) ==
    IF k = "Application" THEN {"trustAnchors"}
    ELSE {"core", "credentials", "authentication"}

StatusKeys(k) ==
    IF k = "Application" THEN {"trustAnchors", "conditions"} ELSE {"core"}

RawValues(key) ==
    CASE key = "core" -> {JStr("x"), JObj(<<Ent("disabled", JStr("yes"))>>)}
      [] key = "trustAnchors" ->
             {JStr("x"), JObj(<<>>), JObj(<<Ent("anchors", JArr(<<>>))>>)}
      [] key = "downstream" ->
             {JStr("x"), JArr(<<>>), JObj(<<>>),
              JObj(<<Ent("foo", JObj(<<>>))>>),
              JObj(<<Ent("foo", JStr("x"))>>),
              JObj(<<Ent("foo", JObj(<<Ent("password", JNum(1))>>))>>),
              JObj(<<Ent("internal", JObj(<<>>))>>),
              JObj(<<Ent("internal", JObj(<<Ent("password", JNull)>>))>>),
              JObj(<<Ent("internal",
                         JObj(<<Ent("password", JStr("foobar"))>>))>>),
              JObj(<<Ent("externalKafka", JObj(<<>>))>>),
              JObj(<<Ent("externalKafka",
                         JObj(<<Ent("bootstrapServers", JStr("server")),
                                Ent("topic", JStr("topic"))>>))>>),
              JObj(<<Ent("externalKafka",
                         JArr(<<JStr("server"), JStr("topic")>>)),
                     Ent("internal", JObj(<<>>))>>)}
      [] OTHER -> {JStr("x")}

Init ==
    /\ kind \in {"Application", "Device"}
    /\ spec = EmptyMap
    /\ status = EmptyMap
    /\ last = Call("new", "", "", "", NoValue, "", Ok(Unit), 0, NoValue)
    /\ conds = <<>>
    /\ now = 0
    /\ cond_last = CondCall("default", "", NoStatus, FALSE, <<"", "">>)
    /\ call = FnCall("", NoValue, NoValue)
    /\ finalizers = <<>>

(***************************************************************************)
(* Calls that write.                                                       *)
(***************************************************************************)
SpecMutInsert(key, raw) ==
    /\ spec' = [spec EXCEPT ![key] = raw]
    /\ last' = Call("spec_mut", "", key, "", NoValue, "", Ok(Unit), 0, NoValue)
    /\ UNCHANGED <<kind, status, cond_vars, call, finalizers>>

StatusMutInsert(key, raw) ==
    /\ status' = [status EXCEPT ![key] = raw]
    /\ last' = Call("status_mut", "", key, "", NoValue, "", Ok(Unit), 0,
                    NoValue)
    /\ UNCHANGED <<kind, spec, cond_vars, call, finalizers>>

\* a write takes &mut self: the maps become those of its outcome
Write(op, D, f, arg, was, o) ==
    /\ spec' = o.r.spec
    /\ status' = o.r.status
    /\ last' = Call(op, D, DialectKey(D), f, arg, was, o.ret, o.fcalls,
                    NoValue)
    /\ UNCHANGED <<kind, cond_vars, call, finalizers>>

SetSection(d) ==
    Write("set_section", d.ty, "", d, Was(Self, d.ty), set_section(Self, d))

UpdateSection(D, f) ==
    Write("update_section", D, f, NoValue, Was(Self, D),
          update_section(Self, D, f))

ClearSection(D) ==
    Write("clear_section", D, "", NoValue, Was(Self, D),
          Outcome(clear_section(Self, D), Ok(Unit), 0))

(***************************************************************************)
(* Calls that read: they take &self.                                       *)
(***************************************************************************)
\* mutant of Read: a read of an absent key leaves an empty section there
ReadInserting(op, D, key, out) ==
    /\ last' = Call(op, D, key, "", NoValue, "", Ok(Unit), 0, out)
    /\ spec' = [spec EXCEPT ![key] = IF @ = Absent THEN JObj(<<>>) ELSE @]
    /\ UNCHANGED <<kind, status, cond_vars, call, finalizers>>

Read(op, D, key, out) ==
    /\ last' = Call(op, D, key, "", NoValue, "", Ok(Unit), 0, out)
    /\ UNCHANGED <<kind, spec, status, cond_vars, call, finalizers>>

SectionCall(D) == Read("section", D, DialectKey(D), section(Self, D))

SpecFor(T, key) == Read("spec_for", T, key, spec_for(Self, T, key))

StatusFor(T, key) == Read("status_for", T, key, status_for(Self, T, key))

AttributeDeviceEnabled ==
    Read("attribute", "DeviceSpecCore", "core", attribute_DeviceEnabled(Self))

ValidateDevice ==
    Read("validate_device", "DeviceSpecCore", "core", validate_device(Self))

GetCredentials ==
    Read("get_credentials", "DeviceSpecAuthentication", "authentication",
         get_credentials(Self))

Next ==
    \/ \E key \in SpecKeys(kind) : \E raw \in RawValues(key) : SpecMutInsert(key, raw)
    \/ \E key \in StatusKeys(kind) : \E raw \in RawValues(key) :
          StatusMutInsert(key, raw)
    \/ \E D \in DialectsOf(kind) : \E d \in DialectValues(D) : SetSection(d)
    \/ \E D \in DialectsOf(kind), f \in Fs : UpdateSection(D, f)
    \/ \E D \in DialectsOf(kind) : ClearSection(D)
    \/ \E D \in DialectsOf(kind) : SectionCall(D)
    \/ \E T \in DialectsOf(kind), key \in SpecKeys(kind) : SpecFor(T, key)
    \/ \E T \in DialectsOf(kind), key \in StatusKeys(kind) : StatusFor(T, key)
    \/ kind = "Device" /\ AttributeDeviceEnabled
    \/ kind = "Device" /\ ValidateDevice
    \/ kind = "Device" /\ GetCredentials

Spec == Init /\ [][Next]_vars

(***************************************************************************)
(* Claims about the translator.                                            *)
(***************************************************************************)
After == Resource(spec', status')

ReadOps ==
    {"section", "spec_for", "status_for", "attribute", "validate_device",
     "get_credentials"}

WriteOps == {"set_section", "update_section", "clear_section"}

\* C1: after set_section(v) returns Ok, section::<D>() returns Some(Ok(v)):
\* encoding and then decoding a dialect value gives the value back
C1_SetThenSectionGivesValue ==
    (last.op = "set_section" /\ last.ret.ok)
        => section(Self, last.d) = SectionSome(Ok(last.arg))

\* the map a lookup reads: spec for spec_for and for a dialect declared in
\* Spec, status for status_for and for a dialect declared in Status
MapRead ==
    IF last.op = "spec_for"
       \/ (last.op = "section" /\ DialectSection(last.d) = "Spec")
    THEN spec ELSE status

\* C2: a lookup returns None iff the key is absent from the map it reads,
\* Some(Err) iff the entry is there and does not decode as the type, and
\* Some(Ok(value)) iff it is there and decodes; the other map plays no part
C2_ThreeOutcomes ==
    last.op \in {"section", "spec_for", "status_for"}
        => LET raw == MapRead[last.key]
               dec == from_value(last.d, raw)
           IN  /\ ~last.out.some <=> raw = Absent
               /\ (last.out.some /\ ~last.out.res.ok)
                     <=> (raw # Absent /\ ~dec.ok)
               /\ (last.out.some /\ last.out.res.ok)
                     <=> (raw # Absent /\ dec.ok)
               /\ (last.out.some /\ last.out.res.ok)
                     => last.out.res.v = dec.v

\* C2's case: the dialect's key is absent from its own map and present in
\* the other map, and section returned None
C2_Witness ==
    /\ last.op = "section"
    /\ last.d = "ApplicationSpecTrustAnchors"
    /\ ~last.out.some
    /\ status["trustAnchors"] # Absent

\* C3: update_section(f) on an absent section leaves the resource as
\* set_section(f(D::default())) does and returns what it returns, after one
\* call of f
C3_UpdateAbsentIsSetOfDefault ==
    [][(last'.op = "update_section" /\ ~section(Self, last'.d).some)
          => LET o == set_section(Self, Apply(last'.f, Default(last'.d))) IN
             /\ After = o.r
             /\ last'.ret = o.ret
             /\ last'.fcalls = 1]_vars

\* C3's case: update_section grew the default of an absent section
C3_Witness ==
    /\ last.op = "update_section"
    /\ last.was = "absent"
    /\ last.f = "grow"
    /\ section(Self, last.d).some

\* C4: update_section(f) on a section that is present and does not decode
\* returns the decode error, does not call f and changes neither map
C4_UpdateMalformedFails ==
    [][LET cur == section(Self, last'.d) IN
       (last'.op = "update_section" /\ cur.some /\ ~cur.res.ok)
          => /\ last'.ret = cur.res
             /\ last'.fcalls = 0
             /\ After = Self]_vars

\* C4's case: update_section was called on a malformed section
C4_Witness ==
    /\ last.op = "update_section"
    /\ last.was = "malformed"
    /\ last.f = "grow"

\* C5: set_section, update_section and clear_section change at most the
\* entry at the dialect's key in the dialect's map
C5_WritesTouchOneEntry ==
    [][last'.op \in WriteOps
          => \A k \in Keys :
                /\ (DialectSection(last'.d) = "Spec" /\ k = DialectKey(last'.d))
                   \/ spec'[k] = spec[k]
                /\ (DialectSection(last'.d) = "Status"
                    /\ k = DialectKey(last'.d))
                   \/ status'[k] = status[k]]_vars

\* C5's case: a dialect was written while another dialect's section of the
\* same key was in the other map
C5_Witness ==
    /\ last.op = "set_section"
    /\ last.d = "ApplicationStatusTrustAnchors"
    /\ spec["trustAnchors"] # Absent
    /\ status["trustAnchors"] # Absent

\* C6: after clear_section the section is absent; on an absent section it
\* changes nothing; clearing again changes nothing more
C6_ClearRemoves ==
    [][last'.op = "clear_section"
          => /\ ~section(After, last'.d).some
             /\ Was(Self, last'.d) = "absent" => After = Self
             /\ clear_section(After, last'.d) = After]_vars

\* C6's case: clear_section removed a section that was there
C6_Witness ==
    /\ last.op = "clear_section"
    /\ last.was = "decoded"
    /\ ~section(Self, last.d).some

\* C7: a read (section, spec_for, status_for, attribute, validate_device,
\* get_credentials) leaves both maps as they were
C7_ReadsChangeNothing ==
    [][last'.op \in ReadOps => After = Self]_vars

\* C7's case: get_credentials found neither section and created none
C7_Witness ==
    /\ last.op = "get_credentials"
    /\ ~last.out.some
    /\ spec["credentials"] = Absent
    /\ spec["authentication"] = Absent

(***************************************************************************)
(* The Conditions collection: it starts as Conditions::default() and is    *)
(* changed by its methods, which read the clock.                           *)
(***************************************************************************)
CondTypes == {CONDITION_READY, "KafkaReady", "FooBarReady"}

\* the ConditionStatus values update is called with
StatusArgs ==
    {ConditionStatus(st, rm[1], rm[2]) :
        st \in OptionBool,
        rm \in {<<None, None>>, <<Some("AllSystemsGo"), Some("All systems go")>>}}

\* time passes
Tick ==
    /\ now < MaxInstant
    /\ now' = now + 1
    /\ UNCHANGED <<res_vars, conds, cond_last, call, finalizers>>

Update(type, cs) ==
    /\ conds' = update(conds, type, cs, now)
    /\ cond_last' = CondCall("update", type, cs, FirstOf(conds, type) # 0,
                             <<"", "">>)
    /\ UNCHANGED <<res_vars, now, call, finalizers>>

AggregateReady ==
    /\ conds' = aggregate_ready(conds, now)
    /\ cond_last' = CondCall("aggregate_ready", CONDITION_READY, NoStatus,
                             FirstOf(conds, CONDITION_READY) # 0, <<"", "">>)
    /\ UNCHANGED <<res_vars, now, call, finalizers>>

ClearReady(type) ==
    /\ conds' = clear_ready(conds, type, now)
    /\ cond_last' = CondCall("clear_ready", type, NoStatus,
                             FirstOf(conds, type) # 0,
                             <<StatusOf(conds, type),
                               StatusOf(conds, CONDITION_READY)>>)
    /\ UNCHANGED <<res_vars, now, call, finalizers>>

CondNext ==
    \/ Tick
    \/ \E type \in CondTypes, cs \in StatusArgs : Update(type, cs)
    \/ AggregateReady
    \/ \E type \in CondTypes : ClearReady(type)

\* the collection lives in an Application's status
CondInit == Init /\ kind = "Application"

CondSpec == CondInit /\ [][CondNext]_vars

(***************************************************************************)
(* Claims about Conditions.                                                *)
(***************************************************************************)
\* the condition update(type, ..) works on, before and after the call
Hit == conds[FirstOf(conds, cond_last'.type)]

HitAfter == conds'[FirstOf(conds, cond_last'.type)]

\* C8: update on a collection that holds a condition of the type keeps the
\* condition's lastTransitionTime when the new status string equals the
\* stored one, and otherwise sets it to the current time and stores the new
\* status string
C8_TransitionTimeFollowsStatus ==
    [][(cond_last'.op = "update" /\ FirstOf(conds, cond_last'.type) # 0)
          => IF Hit.status = make_status(cond_last'.cs.status)
             THEN /\ HitAfter.last_transition_time = Hit.last_transition_time
                  /\ HitAfter.status = Hit.status
             ELSE /\ HitAfter.last_transition_time = now
                  /\ HitAfter.status = make_status(cond_last'.cs.status)]_vars

\* C8's case: an update with the stored status, made after the condition's
\* last transition, left the transition time in the past
C8_Witness ==
    /\ cond_last.op = "update"
    /\ cond_last.found
    /\ LET c == conds[FirstOf(conds, cond_last.type)] IN
       /\ c.status = "True"
       /\ c.last_transition_time < now
       /\ c.reason = Some("AllSystemsGo")

\* C9: update stores the reason and message it is given in the condition of
\* the type, whether or not the status changes, and changes no other
\* condition; without a condition of the type it appends one with the
\* given status, reason and message and the current time
C9_ReasonAndMessageReplaced ==
    [][cond_last'.op = "update"
          => IF FirstOf(conds, cond_last'.type) # 0
             THEN /\ HitAfter.reason = cond_last'.cs.reason
                  /\ HitAfter.message = cond_last'.cs.message
                  /\ HitAfter.type = cond_last'.type
                  /\ Len(conds') = Len(conds)
                  /\ \A j \in 1..Len(conds) :
                        j # FirstOf(conds, cond_last'.type)
                           => conds'[j] = conds[j]
             ELSE conds' = Append(conds,
                                  Condition(now, cond_last'.cs.message,
                                            cond_last'.cs.reason,
                                            make_status(cond_last'.cs.status),
                                            cond_last'.type))]_vars

\* C9's case: an update replaced a reason by none while the status stayed
C9_Witness ==
    /\ cond_last.op = "update"
    /\ cond_last.found
    /\ cond_last.cs.reason = None
    /\ LET c == conds[FirstOf(conds, cond_last.type)] IN
       /\ c.reason = None
       /\ c.last_transition_time < now

\* C10: right after aggregate_ready the collection holds a Ready condition
\* that is "True" iff every condition of another type is "True"; when it is
\* "False" its reason is NonReadyConditions, when it is "True" it has no
\* reason and no message
C10_ReadyAggregates ==
    cond_last.op = "aggregate_ready"
        => /\ FirstOf(conds, CONDITION_READY) # 0
           /\ LET r == conds[FirstOf(conds, CONDITION_READY)] IN
              /\ r.status \in {"True", "False"}
              /\ r.status = "True"
                    <=> \A i \in 1..Len(conds) :
                           conds[i].type # CONDITION_READY
                              => conds[i].status = "True"
              /\ r.status = "False" => r.reason = Some("NonReadyConditions")
              /\ r.status = "True" => (r.reason = None /\ r.message = None)

\* C10's case: an Unknown condition beside a True one made Ready "False"
C10_Witness ==
    /\ cond_last.op = "aggregate_ready"
    /\ Len(conds) = 3
    /\ \E i \in 1..Len(conds) : conds[i].status = "Unknown"
    /\ ~\E i \in 1..Len(conds) :
          conds[i].type # CONDITION_READY /\ conds[i].status = "False"
    /\ conds[FirstOf(conds, CONDITION_READY)].status = "False"

\* C11: clear_ready(t) removes every condition of type t, keeps the other
\* conditions as they were and in their order, and leaves one Ready
\* condition aggregated over them: "True" iff each of them is "True"; so
\* [t: not "True", Ready: "False"] becomes exactly [Ready: "True"]
C11_ClearReadyReaggregates ==
    [][cond_last'.op = "clear_ready"
          => LET t == cond_last'.type
                 rest == SelectSeq(conds, LAMBDA c :
                                      c.type \notin {t, CONDITION_READY})
             IN  /\ t # CONDITION_READY
                       => \A i \in 1..Len(conds') : conds'[i].type # t
                 /\ SelectSeq(conds', LAMBDA c : c.type # CONDITION_READY)
                       = rest
                 /\ Cardinality({i \in 1..Len(conds') :
                                    conds'[i].type = CONDITION_READY}) = 1
                 /\ StatusOf(conds', CONDITION_READY) = "True"
                       <=> \A i \in 1..Len(rest) : rest[i].status = "True"
                 /\ (/\ Len(conds) = 2
                     /\ t # CONDITION_READY
                     /\ conds[1].type = t /\ conds[1].status # "True"
                     /\ conds[2].type = CONDITION_READY
                     /\ conds[2].status = "False")
                       => /\ Len(conds') = 1
                          /\ conds'[1].type = CONDITION_READY
                          /\ conds'[1].status = "True"]_vars

\* C11's case: the only condition that was not ready was cleared from
\* [t: "False", Ready: "False"], and the collection is [Ready: "True"]
C11_Witness ==
    /\ cond_last.op = "clear_ready"
    /\ cond_last.type # CONDITION_READY
    /\ cond_last.before = <<"False", "False">>
    /\ Len(conds) = 1
    /\ conds[1].type = CONDITION_READY
    /\ conds[1].status = "True"

(***************************************************************************)
(* The downstream section of an Application: the translator's calls with   *)
(* the DownstreamSpec dialect, and the values a service response puts      *)
(* under the key.                                                          *)
(***************************************************************************)
DownInit == Init /\ kind = "Application"

DownNext ==
    \/ \E raw \in RawValues("downstream") : SpecMutInsert("downstream", raw)
    \/ \E d \in DialectValues("DownstreamSpec") : SetSection(d)
    \/ \E f \in Fs : UpdateSection("DownstreamSpec", f)
    \/ ClearSection("DownstreamSpec")
    \/ SectionCall("DownstreamSpec")
    \/ \E T \in {"DownstreamSpec", "ApplicationSpecTrustAnchors"} :
          SpecFor(T, "downstream")

DownSpec == DownInit /\ [][DownNext]_vars

(***************************************************************************)
(* Claims about DownstreamSpec.                                            *)
(***************************************************************************)
\* the value under the key "downstream", and a lookup of the section
Raw == spec["downstream"]

DownLookup == last.op = "section" /\ last.d = "DownstreamSpec"

SingleKey(j) == j.k = "object" /\ Len(j.a) = 1

VariantKeys == {"externalKafka", "internal"}

\* C12: the variant is selected from the object's single key: {} decodes to
\* Internal with default fields, {"externalKafka": v} to ExternalKafka of
\* the decoded v, {"internal": v} to Internal of the decoded v, and
\* {unrecognised: {}} to Internal with default fields
C12_VariantFromKey ==
    DownLookup
        => /\ Raw = JObj(<<>>)
                 => last.out = SectionSome(Ok(Internal(InternalSpec(None))))
           /\ (/\ SingleKey(Raw)
               /\ Raw.a[1].s = "externalKafka"
               /\ DecExternalKafkaSpec(Raw.a[1].a[1]).ok)
                 => last.out =
                       SectionSome(Ok(ExternalKafka(
                           DecExternalKafkaSpec(Raw.a[1].a[1]).v)))
           /\ Raw = JObj(<<Ent("externalKafka",
                               JObj(<<Ent("bootstrapServers", JStr("server")),
                                      Ent("topic", JStr("topic"))>>))>>)
                 => last.out =
                       SectionSome(Ok(ExternalKafka(
                           ExternalKafkaSpec("server", "topic", NoProperties))))
           /\ (/\ SingleKey(Raw)
               /\ Raw.a[1].s = "internal"
               /\ DecInternalSpec(Raw.a[1].a[1]).ok)
                 => last.out =
                       SectionSome(Ok(Internal(
                           DecInternalSpec(Raw.a[1].a[1]).v)))
           /\ Raw = JObj(<<Ent("internal",
                               JObj(<<Ent("password", JStr("foobar"))>>))>>)
                 => last.out =
                       SectionSome(Ok(Internal(InternalSpec(Some("foobar")))))
           /\ (/\ SingleKey(Raw)
               /\ Raw.a[1].s \notin VariantKeys
               /\ Raw.a[1].a[1] = JObj(<<>>))
                 => last.out = SectionSome(Ok(Internal(InternalSpec(None))))

\* C12's case: an unrecognised key with an empty object was decoded as the
\* default variant
C12_Witness ==
    /\ DownLookup
    /\ Raw = JObj(<<Ent("foo", JObj(<<>>))>>)
    /\ last.out = SectionSome(Ok(Internal(InternalSpec(None))))

\* C13: an object whose single key is not a recognised variant key never
\* decodes to an error: whatever the value under the key, the lookup
\* returns Some(Ok(Internal(..)))
C13_UnknownKeyNeverFails ==
    (DownLookup /\ SingleKey(Raw) /\ Raw.a[1].s \notin VariantKeys)
        => /\ last.out.some
           /\ last.out.res.ok
           /\ last.out.res.v.variant = "Internal"

\* C14: a DownstreamSpec is written as an object with at most one key:
\* ExternalKafka(k) as {"externalKafka": k}, Internal with default fields as
\* {}, Internal with a field set as {"internal": ..}; and decoding what was
\* written gives the value back
C14_EncodesActiveVariant ==
    (last.op = "set_section" /\ last.d = "DownstreamSpec")
        => /\ last.ret.ok
           /\ Raw.k = "object" /\ Len(Raw.a) <= 1
           /\ last.arg.variant = "ExternalKafka"
                 => /\ SingleKey(Raw)
                    /\ Raw.a[1].s = "externalKafka"
                    /\ Get(Raw.a[1].a[1], "bootstrapServers")
                          = JStr(last.arg.kafka.bootstrap_servers)
                    /\ Get(Raw.a[1].a[1], "topic") = JStr(last.arg.kafka.topic)
                    /\ Get(Raw.a[1].a[1], "properties").k = "object"
                    /\ \A i \in 1..Len(last.arg.kafka.properties) :
                          Get(Get(Raw.a[1].a[1], "properties"),
                              last.arg.kafka.properties[i][1])
                             = JStr(last.arg.kafka.properties[i][2])
           /\ last.arg = Internal(InternalSpec(None)) => Raw = JObj(<<>>)
           /\ (/\ last.arg.variant = "Internal"
               /\ last.arg.internal.password.some)
                 => Raw = JObj(<<Ent("internal",
                                     JObj(<<Ent("password",
                                                JStr(last.arg.internal
                                                         .password.str))>>))>>)
           /\ section(Self, "DownstreamSpec") = SectionSome(Ok(last.arg))

\* C14's case: an Internal that differs from the default by an empty
\* password was written under "internal" and read back
C14_Witness ==
    /\ last.op = "set_section"
    /\ last.arg = Internal(InternalSpec(Some("")))
    /\ SingleKey(Raw)
    /\ section(Self, "DownstreamSpec") = SectionSome(Ok(last.arg))

(***************************************************************************)
(* Calls of the functions that take no resource and no collection, with    *)
(* arguments drawn from small sets.                                        *)
(***************************************************************************)
Fn(fn, arg, out) ==
    /\ call' = FnCall(fn, arg, out)
    /\ UNCHANGED <<res_vars, cond_vars, finalizers>>

PasswordTags == {"plain", "bcrypt", "sha512"}

Passwords == {Password(tag, s) : tag \in PasswordTags, s \in {"", "foo"}}

\* the JSON values a password is read from
PasswordValues ==
    {JStr(s) : s \in {"", "foo"}}
    \cup {JObj(<<Ent(tag, JStr(s))>>) :
             tag \in PasswordTags \cup {"md5"}, s \in {"", "foo"}}
    \cup {JNull, JNum(1), JArr(<<JStr("foo")>>), JObj(<<>>),
          JObj(<<Ent("plain", JNum(1))>>),
          JObj(<<Ent("bcrypt", JStr("foo")), Ent("plain", JStr("foo"))>>)}

PasswordDeserialize(j) == Fn("Password::deserialize", j, DecPassword(j))

PasswordSerialize(p) == Fn("Password::serialize", p, EncPassword(p))

\* enum Role, and the Vec<Role> values of Roles: each set of roles in the
\* order of the enum, and two vectors in another order
Role == {"Admin", "Manager", "Reader", "Subscriber", "Publisher"}

RoleVecs ==
    {SelectSeq(<<"Admin", "Manager", "Reader", "Subscriber", "Publisher">>,
               LAMBDA r : r \in S) : S \in SUBSET Role}
    \cup {<<"Reader", "Reader">>, <<"Reader", "Manager">>}

\* Vec::contains
VecContains(vec, x) == \E i \in 1..Len(vec) : vec[i] = x

\* mutant of contains: Manager does not imply Reader
contains_flat(roles, role) ==
    VecContains(roles, "Admin") \/ VecContains(roles, role)

\* Roles::contains
contains(roles, role) ==
    IF VecContains(roles, "Admin") THEN TRUE
    ELSE CASE role = "Admin" -> VecContains(roles, "Admin")
           [] role = "Manager" -> VecContains(roles, "Manager")
           [] role = "Reader" ->
                  VecContains(roles, "Manager") \/ VecContains(roles, "Reader")
           [] role = "Publisher" -> VecContains(roles, "Publisher")
           [] role = "Subscriber" -> VecContains(roles, "Subscriber")

RolesContains(roles, role) ==
    Fn("Roles::contains", <<roles, role>>, contains(roles, role))

(***************************************************************************)
(* The response evaluators of the HTTP client.  A response is its status   *)
(* and its body; the body is JSON text or not.  The type T the evaluators  *)
(* decode a body to is DeviceSpecCore here.                                *)
(***************************************************************************)
OK == 200

CREATED == 201

ACCEPTED == 202

NO_CONTENT == 204

NOT_FOUND == 404

\* the statuses the responses carry
StatusCodes ==
    {OK, CREATED, ACCEPTED, NO_CONTENT, NOT_FOUND, 100, 301, 400, 409, 499,
     500, 503}

\* StatusCode::is_client_error
is_client_error(code) == 400 <= code /\ code < 500

\* a body holding the text of a JSON value, and a body that is no JSON text
Body(value) == [json |-> TRUE, value |-> value]

NotJson == [json |-> FALSE, value |-> JNull]

Bodies ==
    {NotJson}
    \cup {Body(j) : j \in {JStr("boom"), JObj(<<>>),
                           JObj(<<Ent("disabled", JBool(TRUE))>>),
                           JObj(<<Ent("disabled", JNum(1))>>)}}

HttpResponse(code, body) == [status |-> code, body |-> body]

Responses == {HttpResponse(code, body) : code \in StatusCodes, body \in Bodies}

\* Response::json::<T>() and Response::json::<String>()
json(body) ==
    IF body.json THEN DecDeviceSpecCore(body.value) ELSE Err("expected value")

json_String(body) ==
    IF body.json THEN DecString(body.value) ELSE Err("expected value")

\* ClientError::Client, built from the error of Response::json by `?`
Client(err) == [ty |-> "ClientError::Client", source |-> err]

ErrorInformation(error, message, code) ==
    [error |-> error, message |-> message, status |-> code]

Service(error) == [ty |-> "ClientError::Service", info |-> error]

\* Err(e) for a ClientError e
Failed(e) == [ok |-> FALSE, v |-> e]

\* Ok(Some(response.json().await?))
SomeJson(res) == IF res.ok THEN Ok(Some(res.v)) ELSE Failed(Client(res.v))

\* the ErrorInformation of a client error status
ClientErrorInformation(code, res) ==
    IF res.ok THEN ErrorInformation(res.v, <<"HTTP ", code>>, code)
    ELSE ErrorInformation("", <<"HTTP error ", code>>, code)

default_response(response) ==
    IF is_client_error(response.status)
    THEN Failed(Service(ClientErrorInformation(response.status,
                                               json_String(response.body))))
    ELSE Failed(Service(ErrorInformation(
                 "", <<"Unexpected HTTP code ", response.status>>,
                 response.status)))

read_response(response) ==
    CASE response.status = OK -> SomeJson(json(response.body))
      [] response.status = NOT_FOUND -> Ok(None)
      [] OTHER -> default_response(response)

\* mutant of update_response: 202 Accepted is not taken as success
update_response_unaccepted(response) ==
    CASE response.status \in {OK, NO_CONTENT} -> Ok(TRUE)
      [] response.status = NOT_FOUND -> Ok(FALSE)
      [] OTHER -> default_response(response)

update_response(response) ==
    CASE response.status \in {OK, NO_CONTENT, ACCEPTED} -> Ok(TRUE)
      [] response.status = NOT_FOUND -> Ok(FALSE)
      [] OTHER -> default_response(response)

delete_response(response) ==
    CASE response.status \in {OK, NO_CONTENT} -> Ok(TRUE)
      [] response.status = NOT_FOUND -> Ok(FALSE)
      [] OTHER -> default_response(response)

create_response(response) ==
    CASE response.status \in {CREATED, ACCEPTED} -> Ok(None)
      [] response.status = OK -> SomeJson(json(response.body))
      [] OTHER -> default_response(response)

ReadResponse(response) ==
    Fn("read_response", response, read_response(response))

UpdateResponse(response) ==
    Fn("update_response", response, update_response(response))

DeleteResponse(response) ==
    Fn("delete_response", response, delete_response(response))

CreateResponse(response) ==
    Fn("create_response", response, create_response(response))

DefaultResponse(response) ==
    Fn("default_response", response, default_response(response))

(***************************************************************************)
(* Token injection.  A request builder is the authorization header it      *)
(* carries; a token provider is what it answers when asked; the result of  *)
(* an injection comes with the number of times the provider was asked.     *)
(***************************************************************************)
Context(provided_token) == [provided_token |-> provided_token]

\* enum Credentials
Bearer(token) == [ty |-> "Bearer", token |-> token]

Basic(username, password) ==
    [ty |-> "Basic", username |-> username, password |-> password]

\* a fresh reqwest::RequestBuilder, and the builders with an authorization
RequestBuilder == [authorization |-> <<>>]

bearer_auth(builder, token) ==
    [builder EXCEPT !.authorization = Append(@, <<"Bearer ", token>>)]

basic_auth(builder, username, password) ==
    [builder EXCEPT !.authorization =
        Append(@, <<"Basic ", username, ":",
                    IF password.some THEN password.str ELSE "">>)]

\* ClientError::Token
Token(err) == [ty |-> "ClientError::Token", source |-> err]

Tokens == {"t1", "t2"}

\* what provide_access_token() answers
ProviderAnswers ==
    {Ok(None), Err("refused")}
    \cup {Ok(Some(Bearer(t))) : t \in Tokens}
    \cup {Ok(Some(Basic(u, p))) : u \in {"user"}, p \in {None, Some("pw")}}

Injected(ret, asked) == [ret |-> ret, asked |-> asked]

\* Ok(match credentials { ... })
WithCredentials(builder, credentials) ==
    IF credentials.ty = "Bearer" THEN bearer_auth(builder, credentials.token)
    ELSE basic_auth(builder, credentials.username, credentials.password)

\* the branches of inject_token that ask the provider
FromProvider(builder, answer) ==
    IF ~answer.ok THEN Injected(Failed(Token(answer.v)), 1)
    ELSE IF answer.v.some
         THEN Injected(Ok(WithCredentials(builder, answer.v.str)), 1)
         ELSE Injected(Ok(builder), 1)

\* mutant of inject_token: the provider's credentials win over the
\* context's token
inject_token_provider_first(builder, answer, context) ==
    IF answer.ok /\ answer.v.some THEN FromProvider(builder, answer)
    ELSE IF context.provided_token.some
         THEN Injected(Ok(bearer_auth(builder, context.provided_token.str)), 1)
         ELSE FromProvider(builder, answer)

\* <reqwest::RequestBuilder as TokenInjector>::inject_token
inject_token(builder, answer, context) ==
    IF context.provided_token.some
    THEN Injected(Ok(bearer_auth(builder, context.provided_token.str)), 0)
    ELSE FromProvider(builder, answer)

\* what an OpenIdTokenProvider answers to provide_token(): a token with its
\* access_token, or an error
OpenIdAnswers == {Err("refused")} \cup {Ok([access_token |-> t]) : t \in Tokens}

OpenIdProviders == {[some |-> FALSE, answer |-> Err("none")]}
                   \cup {[some |-> TRUE, answer |-> a] : a \in OpenIdAnswers}

OpenIdFromProvider(builder, answer) ==
    IF answer.ok
    THEN Injected(Ok(bearer_auth(builder, answer.v.access_token)), 1)
    ELSE Injected(Failed(Token(answer.v)), 1)

\* openid::inject_token
openid_inject_token(token_provider, builder, context) ==
    IF context.provided_token.some
    THEN Injected(Ok(bearer_auth(builder, context.provided_token.str)), 0)
    ELSE IF token_provider.some
         THEN OpenIdFromProvider(builder, token_provider.answer)
         ELSE Injected(Ok(builder), 0)

Contexts == {Context(None)} \cup {Context(Some(t)) : t \in {"t0"}}

InjectToken(answer, context) ==
    Fn("inject_token", [provider |-> answer, context |-> context],
       inject_token(RequestBuilder, answer, context))

OpenIdInjectToken(token_provider, context) ==
    Fn("openid::inject_token",
       [provider |-> token_provider, context |-> context],
       openid_inject_token(token_provider, RequestBuilder, context))

(***************************************************************************)
(* The ordering of pre-shared keys.                                        *)
(***************************************************************************)
\* <Validity as PartialOrd>::partial_cmp, unwrapped by cmp
Validity_cmp(self, other) ==
    IF self.not_before < other.not_before THEN "Less"
    ELSE IF self.not_before > other.not_before THEN "Greater"
    ELSE IF self.not_after > other.not_after THEN "Less"
    ELSE IF self.not_after < other.not_after THEN "Greater"
    ELSE "Equal"

\* <PreSharedKey as PartialOrd>::partial_cmp, unwrapped by cmp
PreSharedKey_cmp(self, other) ==
    IF ~self.validity.some /\ ~other.validity.some THEN "Equal"
    ELSE IF ~self.validity.some THEN "Less"
    ELSE IF ~other.validity.some THEN "Equal"
    ELSE Validity_cmp(self.validity, other.validity)

Validities ==
    {NoValidity} \cup {Validity(nb, na) : nb \in Instants, na \in Instants}

PreSharedKeys == {PreSharedKey(key, v) : key \in ByteStrings, v \in Validities}

PreSharedKeyCmp(a, b) ==
    Fn("PreSharedKey::cmp", <<a, b>>,
       <<PreSharedKey_cmp(a, b), PreSharedKey_cmp(b, a)>>)

(***************************************************************************)
(* The registry client's lookup of a device and its gateways.  The         *)
(* registry is what self.read() returns for each device name: Ok(Some) of  *)
(* the device, Ok(None) for 404, or an error.                              *)
(***************************************************************************)
MaxNames == 2

GatewayNames == {"gw1", "gw2"}

\* a Device: its name, and the spec and status maps the Translator reads
Device(name, selector) ==
    [name |-> name, spec |-> [EmptyMap EXCEPT !["gatewaySelector"] = selector],
     status |-> EmptyMap]

RECURSIVE NameLists(_)
NameLists(n) ==
    IF n = 0 THEN {<<>>}
    ELSE NameLists(n - 1)
         \cup {Append(l, g) : l \in NameLists(n - 1), g \in GatewayNames}

\* what the device holds under "gatewaySelector"
SelectorValues ==
    {Absent, JStr("gw1"), JObj(<<>>), JObj(<<Ent("matchNames", JStr("gw1"))>>)}
    \cup {EncDeviceSpecGatewaySelector(DeviceSpecGatewaySelector(l)) :
             l \in NameLists(MaxNames)}

\* the answers of self.read() for one name
ReadAnswers(name, selectors) ==
    {Ok(None), Failed(Service(ErrorInformation("", "", 500)))}
    \cup {Ok(Some(Device(name, selector))) : selector \in selectors}

Registries ==
    {[dev |-> d, gw1 |-> a, gw2 |-> b] :
        d \in ReadAnswers("dev", SelectorValues),
        a \in ReadAnswers("gw1", {Absent}),
        b \in ReadAnswers("gw2", {Absent})}

\* a call's result and the requests it sent, in order
Requested(ret, requests) == [ret |-> ret, requests |-> requests]

\* mutant of get_devices: a request that fails counts as a missing device
RECURSIVE get_devices_lenient(_, _, _, _)
get_devices_lenient(registry, devices, i, found) ==
    IF i > Len(devices) THEN Requested(Ok(found), devices)
    ELSE IF registry[devices[i]].ok /\ registry[devices[i]].v.some
    THEN get_devices_lenient(registry, devices, i + 1,
                             Append(found, registry[devices[i]].v.str))
    ELSE get_devices_lenient(registry, devices, i + 1, found)

\* Client::get_devices: the stream asks for one device after the other,
\* leaves out the missing ones and ends at the first error
RECURSIVE get_devices(_, _, _, _)
get_devices(registry, devices, i, found) ==
    IF i > Len(devices) THEN Requested(Ok(found), devices)
    ELSE IF ~registry[devices[i]].ok
    THEN Requested(registry[devices[i]], SubSeq(devices, 1, i))
    ELSE IF registry[devices[i]].v.some
    THEN get_devices(registry, devices, i + 1,
                     Append(found, registry[devices[i]].v.str))
    ELSE get_devices(registry, devices, i + 1, found)

\* Ok(Some((device, gateways))), after self.get_devices(..).await?
WithGateways(device, name, gateways) ==
    IF gateways.ret.ok
    THEN Requested(Ok(Some(<<device, gateways.ret.v>>)),
                   <<name>> \o gateways.requests)
    ELSE Requested(gateways.ret, <<name>> \o gateways.requests)

\* the gateways of a device that was found
Gateways(registry, device, name, gw_sel) ==
    IF gw_sel.some /\ gw_sel.res.ok
    THEN WithGateways(device, name,
                      get_devices(registry, gw_sel.res.v.match_names, 1, <<>>))
    ELSE Requested(Ok(Some(<<device, <<>> >>)), <<name>>)

\* Client::get_device_and_gateways
get_device_and_gateways(registry, name) ==
    IF ~registry[name].ok THEN Requested(registry[name], <<name>>)
    ELSE IF registry[name].v.some
    THEN Gateways(registry, registry[name].v.str, name,
                  section(registry[name].v.str, "DeviceSpecGatewaySelector"))
    ELSE Requested(Ok(None), <<name>>)

GetDeviceAndGateways(registry, name) ==
    Fn("get_device_and_gateways", [registry |-> registry, device |-> name],
       get_device_and_gateways(registry, name))

FnInit == Init /\ kind = "Device"

FnNext ==
    \/ \E j \in PasswordValues : PasswordDeserialize(j)
    \/ \E p \in Passwords : PasswordSerialize(p)
    \/ \E roles \in RoleVecs, role \in Role : RolesContains(roles, role)
    \/ \E response \in Responses : ReadResponse(response)
    \/ \E response \in Responses : UpdateResponse(response)
    \/ \E response \in Responses : DeleteResponse(response)
    \/ \E response \in Responses : CreateResponse(response)
    \/ \E response \in Responses : DefaultResponse(response)
    \/ \E answer \in ProviderAnswers, context \in Contexts :
          InjectToken(answer, context)
    \/ \E token_provider \in OpenIdProviders, context \in Contexts :
          OpenIdInjectToken(token_provider, context)
    \/ \E a \in PreSharedKeys, b \in PreSharedKeys : PreSharedKeyCmp(a, b)
    \/ \E registry \in Registries : GetDeviceAndGateways(registry, "dev")

FnSpec == FnInit /\ [][FnNext]_vars

(***************************************************************************)
(* Claims about these functions.                                           *)
(***************************************************************************)
\* C15: a bare string s and {"plain": s} both decode to Plain(s), and
\* {"bcrypt": s} and {"sha512": s} to their variants; a password is always
\* written as the tagged object, which decodes to the password, and what a
\* bare string decoded to is written as {"plain": s}
C15_PasswordLegacyDecode ==
    /\ call.fn = "Password::deserialize"
          => /\ call.arg.k = "string"
                   => /\ call.out = Ok(Password("plain", call.arg.s))
                      /\ EncPassword(call.out.v)
                            = JObj(<<Ent("plain", JStr(call.arg.s))>>)
             /\ \A tag \in PasswordTags :
                   (/\ SingleKey(call.arg)
                    /\ call.arg.a[1].s = tag
                    /\ call.arg.a[1].a[1].k = "string")
                      => call.out = Ok(Password(tag, call.arg.a[1].a[1].s))
    /\ call.fn = "Password::serialize"
          => /\ call.out = JObj(<<Ent(call.arg.pv, JStr(call.arg.secret))>>)
             /\ DecPassword(call.out) = Ok(call.arg)

\* C15's case: the bare string "foo" was decoded as Plain("foo")
C15_Witness ==
    /\ call.fn = "Password::deserialize"
    /\ call.arg = JStr("foo")
    /\ call.out = Ok(Password("plain", "foo"))

\* the roles a vector holds
RoleSet(vec) == {vec[i] : i \in 1..Len(vec)}

\* C16: Roles(S).contains(r) is true iff Admin is in S, or r is in S, or r
\* is Reader and Manager is in S
C16_RolesContains ==
    call.fn = "Roles::contains"
        => (call.out
               <=> \/ "Admin" \in RoleSet(call.arg[1])
                   \/ call.arg[2] \in RoleSet(call.arg[1])
                   \/ call.arg[2] = "Reader"
                      /\ "Manager" \in RoleSet(call.arg[1]))

\* C16's case: Manager alone answers true for Reader
C16_Witness ==
    /\ call.fn = "Roles::contains"
    /\ call.arg = <<<<"Manager">>, "Reader">>
    /\ call.out

\* the last call evaluated a response with one of these statuses
Evaluated(fn, codes) == call.fn = fn /\ call.arg.status \in codes

\* the last call returned ClientError::Service carrying the response's status
ServiceError ==
    /\ ~call.out.ok
    /\ call.out.v.ty = "ClientError::Service"
    /\ call.out.v.info.status = call.arg.status

\* the last call returned Some of the decoded body when the body decodes,
\* and ClientError::Client when it does not
SomeDecoded ==
    IF json(call.arg.body).ok
    THEN /\ call.out.ok
         /\ call.out.v.some
         /\ call.out.v.str = json(call.arg.body).v
    ELSE /\ ~call.out.ok
         /\ call.out.v.ty = "ClientError::Client"

\* the last call returned Ok(true) or Ok(false), or Ok(None)
ReturnedBool(b) == call.out.ok /\ call.out.v = b

ReturnedNone == call.out.ok /\ ~call.out.v.some

\* what the evaluators return for the statuses other than 200 on read and
\* create
OtherStatuses ==
    /\ Evaluated("read_response", {NOT_FOUND}) => ReturnedNone
    /\ Evaluated("read_response", StatusCodes \ {OK, NOT_FOUND})
          => ServiceError
    /\ Evaluated("update_response", {OK, ACCEPTED, NO_CONTENT})
          => ReturnedBool(TRUE)
    /\ Evaluated("update_response", {NOT_FOUND}) => ReturnedBool(FALSE)
    /\ Evaluated("update_response",
                 StatusCodes \ {OK, ACCEPTED, NO_CONTENT, NOT_FOUND})
          => ServiceError
    /\ Evaluated("delete_response", {OK, NO_CONTENT}) => ReturnedBool(TRUE)
    /\ Evaluated("delete_response", {NOT_FOUND}) => ReturnedBool(FALSE)
    /\ Evaluated("delete_response", StatusCodes \ {OK, NO_CONTENT, NOT_FOUND})
          => ServiceError
    /\ Evaluated("create_response", {CREATED, ACCEPTED}) => ReturnedNone
    /\ Evaluated("create_response", StatusCodes \ {OK, CREATED, ACCEPTED})
          => ServiceError
    /\ Evaluated("default_response", StatusCodes) => ServiceError

\* C20 as stated: read 200 -> Some(body), 404 -> None; update 200/202/204
\* -> true, 404 -> false; delete 200/204 -> true, 404 -> false; create
\* 201/202 -> None, 200 -> Some(body); every other status an error, and
\* default_response always ClientError::Service carrying the status
C20_StatusTable ==
    /\ OtherStatuses
    /\ Evaluated("read_response", {OK}) => call.out.ok /\ call.out.v.some
    /\ Evaluated("create_response", {OK}) => call.out.ok /\ call.out.v.some

\* C20, amended: as stated, except that read and create return Some(body)
\* for status 200 only when the body decodes as the requested type, and
\* ClientError::Client when it does not
C20_StatusTableDecoding ==
    /\ OtherStatuses
    /\ Evaluated("read_response", {OK}) => SomeDecoded
    /\ Evaluated("create_response", {OK}) => SomeDecoded

\* C20's case: a 202 response to an update was evaluated to true, and a 200
\* response whose body is no JSON text is on record as an error of a read
C20_Witness ==
    \/ /\ Evaluated("read_response", {OK})
       /\ call.arg.body = NotJson
       /\ ~call.out.ok
    \/ /\ Evaluated("update_response", {ACCEPTED})
       /\ ReturnedBool(TRUE)

\* the authorization an injection put on the fresh request builder
Authorization == call.out.ret.v.authorization

\* C21: with a provided token in the context, inject_token sets it as the
\* Bearer authorization and does not ask the provider; without one it sets
\* the provider's Bearer token or Basic user and password, leaves the
\* request without authorization when the provider has no credentials, and
\* returns ClientError::Token and no request when the provider fails
C21_InjectToken ==
    /\ call.fn \in {"inject_token", "openid::inject_token"}
          /\ call.arg.context.provided_token.some
          => /\ call.out.ret.ok
             /\ Authorization
                   = <<(<<"Bearer ", call.arg.context.provided_token.str>>)>>
             /\ call.out.asked = 0
    /\ call.fn = "inject_token" /\ ~call.arg.context.provided_token.some
          => IF ~call.arg.provider.ok
             THEN /\ ~call.out.ret.ok
                  /\ call.out.ret.v.ty = "ClientError::Token"
             ELSE /\ call.out.ret.ok
                  /\ IF ~call.arg.provider.v.some
                     THEN Authorization = <<>>
                     ELSE IF call.arg.provider.v.str.ty = "Bearer"
                     THEN Authorization
                             = <<(<<"Bearer ",
                                    call.arg.provider.v.str.token>>)>>
                     ELSE /\ Len(Authorization) = 1
                          /\ Authorization[1][1] = "Basic "
                          /\ Authorization[1][2]
                                = call.arg.provider.v.str.username
                          /\ call.arg.provider.v.str.password.some
                                => Authorization[1][4]
                                      = call.arg.provider.v.str.password.str
    /\ call.fn = "openid::inject_token"
          /\ ~call.arg.context.provided_token.some
          => IF ~call.arg.provider.some
             THEN call.out.ret.ok /\ Authorization = <<>>
             ELSE IF call.arg.provider.answer.ok
             THEN /\ call.out.ret.ok
                  /\ Authorization
                        = <<(<<"Bearer ",
                               call.arg.provider.answer.v.access_token>>)>>
             ELSE /\ ~call.out.ret.ok
                  /\ call.out.ret.v.ty = "ClientError::Token"

\* C21's case: the context's token was injected although the provider had a
\* Bearer token of its own
C21_Witness ==
    /\ call.fn = "inject_token"
    /\ call.arg.context.provided_token = Some("t0")
    /\ call.arg.provider = Ok(Some(Bearer("t1")))
    /\ call.out.asked = 0
    /\ Authorization = <<(<<"Bearer ", "t0">>)>>

\* Ordering::reverse
Reverse(o) == CASE o = "Less" -> "Greater" [] o = "Greater" -> "Less"
                [] OTHER -> "Equal"

\* C22: cmp(a, b) is the reverse of cmp(b, a); a key without validity
\* orders strictly before every key with validity; two keys with validity
\* are ordered by not_before ascending and then by not_after descending
C22_PreSharedKeyTotalOrder ==
    call.fn = "PreSharedKey::cmp"
        => /\ call.out[1] = Reverse(call.out[2])
           /\ ~call.arg[1].validity.some /\ call.arg[2].validity.some
                 => call.out = <<"Less", "Greater">>
           /\ call.arg[1].validity.some /\ call.arg[2].validity.some
                 => (call.out[1] = "Less"
                        <=> \/ call.arg[1].validity.not_before
                                  < call.arg[2].validity.not_before
                            \/ /\ call.arg[1].validity.not_before
                                     = call.arg[2].validity.not_before
                               /\ call.arg[1].validity.not_after
                                     > call.arg[2].validity.not_after)

\* the gateway names a selector value holds, when it is well formed
WellFormedSelector(sel) ==
    /\ sel.k = "object"
    /\ Get(sel, "matchNames") # Absent
          => /\ Get(sel, "matchNames").k = "array"
             /\ \A i \in 1..Len(Get(sel, "matchNames").a) :
                   Get(sel, "matchNames").a[i].k = "string"

MatchNames(sel) ==
    IF Get(sel, "matchNames") = Absent THEN <<>>
    ELSE [i \in 1..Len(Get(sel, "matchNames").a) |->
             Get(sel, "matchNames").a[i].s]

\* C24: get_device_and_gateways returns None when the device is not found;
\* otherwise the device with the gateways found among the names of its
\* gateway selector, one request per name in order, the names answered 404
\* left out; without a selector, or with a malformed one, the gateway list
\* is empty and no gateway is requested; an error of a gateway request
\* fails the call
C24_DeviceAndGateways ==
    call.fn = "get_device_and_gateways" /\ call.arg.registry.dev.ok
        => LET reg == call.arg.registry
               found == reg.dev.v
               sel == found.str.spec["gatewaySelector"]
               names == MatchNames(sel)
               ret == call.out.ret
           IN  IF ~found.some
               THEN ret.ok /\ ~ret.v.some /\ call.out.requests = <<"dev">>
               ELSE IF sel = Absent \/ ~WellFormedSelector(sel)
               THEN /\ ret.ok /\ ret.v.some
                    /\ ret.v.str = <<found.str, <<>> >>
                    /\ call.out.requests = <<"dev">>
               ELSE IF \E i \in 1..Len(names) : ~reg[names[i]].ok
               THEN ~ret.ok
               ELSE /\ ret.ok /\ ret.v.some
                    /\ ret.v.str[1] = found.str
                    /\ LET present == SelectSeq(names,
                                          LAMBDA n : reg[n].v.some)
                       IN  ret.v.str[2]
                              = [i \in 1..Len(present) |->
                                    reg[present[i]].v.str]
                    /\ call.out.requests = <<"dev">> \o names

\* C24's case: of the two gateways named, the first was answered 404 and
\* the second was found
C24_Witness ==
    /\ call.fn = "get_device_and_gateways"
    /\ call.arg.registry.dev.ok /\ call.arg.registry.dev.v.some
    /\ call.arg.registry.gw1 = Ok(None)
    /\ call.out.requests = <<"dev", "gw1", "gw2">>
    /\ call.out.ret.ok
    /\ Len(call.out.ret.v.str[2]) = 1
    /\ call.out.ret.v.str[2][1].name = "gw2"

(***************************************************************************)
(* The finalizers of the metadata.                                         *)
(***************************************************************************)
MaxFinalizers == 3

FinalizerNames == {"Foo", "Bar", "Abc"}

\* the lists set_finalizers() is called with
RECURSIVE FinalizerLists(_)
FinalizerLists(n) ==
    IF n = 0 THEN {<<>>}
    ELSE FinalizerLists(n - 1)
         \cup {Append(l, f) : l \in FinalizerLists(n - 1), f \in FinalizerNames}

\* a method's effect: the list afterwards and the value returned
Effect(list, ret) == [finalizers |-> list, ret |-> ret]

\* Vec::retain(|f| f != finalizer)
RetainOthers(list, finalizer) == SelectSeq(list, LAMBDA f : f # finalizer)

\* mutant of ensure_finalizer: the finalizer is pushed without a look at
\* the list
ensure_finalizer_push(list, finalizer) ==
    Effect(Append(list, finalizer), TRUE)

\* CommonMetadataMut::ensure_finalizer
ensure_finalizer(list, finalizer) ==
    IF ~VecContains(list, finalizer)
    THEN Effect(Append(list, finalizer), TRUE)
    ELSE Effect(list, FALSE)

\* CommonMetadataMut::remove_finalizer
remove_finalizer(list, finalizer) ==
    Effect(RetainOthers(list, finalizer), VecContains(list, finalizer))

\* a call of a method of the metadata, with the list it found
Method(fn, arg, effect) ==
    /\ finalizers' = effect.finalizers
    /\ call' = FnCall(fn, <<arg, finalizers>>, effect.ret)
    /\ UNCHANGED <<res_vars, cond_vars>>

SetFinalizers(list) == Method("set_finalizers", list, Effect(list, TRUE))

EnsureFinalizer(finalizer) ==
    /\ Len(finalizers) <= MaxFinalizers
    /\ Method("ensure_finalizer", finalizer,
              ensure_finalizer(finalizers, finalizer))

RemoveFinalizer(finalizer) ==
    Method("remove_finalizer", finalizer,
           remove_finalizer(finalizers, finalizer))

MetaInit == Init /\ kind = "Device"

MetaNext ==
    \/ \E list \in FinalizerLists(MaxFinalizers) : SetFinalizers(list)
    \/ \E finalizer \in FinalizerNames : EnsureFinalizer(finalizer)
    \/ \E finalizer \in FinalizerNames : RemoveFinalizer(finalizer)

MetaSpec == MetaInit /\ [][MetaNext]_vars

\* the list holds no string twice
NoDuplicates(list) ==
    \A i \in 1..Len(list), j \in 1..Len(list) : list[i] = list[j] => i = j

\* C23: ensure_finalizer(f) appends f and returns true iff f was not in the
\* list, and otherwise returns false and leaves the list as it was;
\* remove_finalizer(f) removes every occurrence of f, keeps the others in
\* order and returns true iff f was in the list; neither makes a duplicate
\* in a list that had none
C23_Finalizers ==
    /\ call.fn = "ensure_finalizer"
          => /\ call.out <=> ~VecContains(call.arg[2], call.arg[1])
             /\ finalizers = IF call.out THEN call.arg[2] \o <<call.arg[1]>>
                             ELSE call.arg[2]
    /\ call.fn = "remove_finalizer"
          => /\ call.out <=> VecContains(call.arg[2], call.arg[1])
             /\ ~VecContains(finalizers, call.arg[1])
             /\ finalizers
                   = SelectSeq(call.arg[2], LAMBDA f : f # call.arg[1])
    /\ call.fn \in {"ensure_finalizer", "remove_finalizer"}
          /\ NoDuplicates(call.arg[2])
          => NoDuplicates(finalizers)

\* C23's case: a finalizer that occurred twice was removed and another stayed
C23_Witness ==
    /\ call.fn = "remove_finalizer"
    /\ call.arg = <<"Foo", <<"Foo", "Bar", "Foo">> >>
    /\ call.out
    /\ finalizers = <<"Bar">>

(***************************************************************************)
(* Claims about the Device.                                                *)
(***************************************************************************)
\* the core section as the spec map holds it, and decoded
Core == spec["core"]

CoreDecoded == from_value("DeviceSpecCore", Core)

\* C17: attribute::<DeviceEnabled>() returns a bool for each of the three
\* outcomes of the lookup, the one DeviceEnabled::extract gives for that
\* outcome: true for an absent core section, false for one that does not
\* decode
C17_AttributeTotal ==
    last.op = "attribute"
        => /\ last.out \in BOOLEAN
           /\ last.out = DeviceEnabled_extract(section(Self, "DeviceSpecCore"))
           /\ Core = Absent => last.out = TRUE
           /\ (Core # Absent /\ ~CoreDecoded.ok) => last.out = FALSE

\* C17's case: the attribute was read from a core section that does not
\* decode
C17_Witness ==
    /\ last.op = "attribute"
    /\ Core # Absent
    /\ ~CoreDecoded.ok
    /\ last.out = FALSE

\* C18: validate_device returns false iff the spec holds a core section
\* that does not decode or that decodes with disabled = true
C18_ValidateDevice ==
    last.op = "validate_device"
        => /\ last.out \in BOOLEAN
           /\ last.out = FALSE
                 <=> /\ Core # Absent
                     /\ ~CoreDecoded.ok \/ CoreDecoded.v.disabled

\* C18's case: a device whose core section says disabled was validated
C18_Witness ==
    /\ last.op = "validate_device"
    /\ CoreDecoded.ok
    /\ CoreDecoded.v.disabled
    /\ last.out = FALSE

\* C25: attribute::<DeviceEnabled>() and validate_device() return the same
\* boolean for every Device: true when the core section is absent, false
\* when it does not decode, and otherwise true exactly when disabled is
\* false
C25_EnabledIsValidated ==
    /\ last.op = "attribute"
          => /\ last.out = validate_device(Self)
             /\ CoreDecoded.ok => (last.out <=> ~CoreDecoded.v.disabled)
    /\ last.op = "validate_device"
          => last.out = attribute_DeviceEnabled(Self)

(***************************************************************************)
(* The credentials of a Device: the values a service response puts under   *)
(* "credentials" and "authentication", and the Device's calls on them.     *)
(***************************************************************************)
CredentialDialects == {"DeviceSpecCredentials", "DeviceSpecAuthentication"}

CredentialRaw ==
    {JStr("x"), JObj(<<>>),
     JObj(<<Ent("credentials",
                JArr(<<JObj(<<Ent("pass", JStr("foo"))>>)>>))>>),
     JObj(<<Ent("credentials", JArr(<<JObj(<<Ent("pass", JNum(1))>>)>>))>>)}

\* the number of credentials a section holds, 0 when there is none to read
Held(s) == IF s.some /\ s.res.ok THEN Len(s.res.v.credentials) ELSE 0

AddCredential(f) ==
    /\ Held(section(Self, "DeviceSpecCredentials")) <= MaxLen
    /\ Held(section(Self, "DeviceSpecAuthentication")) <= MaxLen
    /\ Write("add_credential", "DeviceSpecCredentials", f, Pushed(f),
             <<Was(Self, "DeviceSpecCredentials"),
               Was(Self, "DeviceSpecAuthentication")>>,
             add_credential(Self, f))

CredInit == Init /\ kind = "Device"

CredNext ==
    \/ \E D \in CredentialDialects, raw \in CredentialRaw :
          SpecMutInsert(DialectKey(D), raw)
    \/ \E f \in PushFs : AddCredential(f)
    \/ \E D \in CredentialDialects : ClearSection(D)
    \/ \E D \in CredentialDialects : SectionCall(D)
    \/ GetCredentials

CredSpec == CredInit /\ [][CredNext]_vars

(***************************************************************************)
(* Claims about the credentials of a Device.                               *)
(***************************************************************************)
Decodable(s) == ~s.some \/ s.res.ok

HeldList(s) == IF s.some THEN s.res.v.credentials ELSE <<>>

\* C19: add_credential(c) on a device whose credentials and authentication
\* sections are each absent or decodable returns Ok and leaves both
\* sections decodable, holding the credentials they held before and then
\* c; when a section that is there does not decode it returns that error
C19_AddCredentialAppends ==
    [][last'.op = "add_credential"
          => LET cr == section(Self, "DeviceSpecCredentials")
                 au == section(Self, "DeviceSpecAuthentication")
             IN  /\ (Decodable(cr) /\ Decodable(au))
                       => /\ last'.ret = Ok(Unit)
                          /\ section(After, "DeviceSpecCredentials")
                                = SectionSome(Ok(DeviceSpecCredentials(
                                      Append(HeldList(cr), last'.arg))))
                          /\ section(After, "DeviceSpecAuthentication")
                                = SectionSome(Ok(DeviceSpecAuthentication(
                                      Append(HeldList(au), last'.arg))))
                 /\ ~Decodable(cr) => last'.ret = cr.res
                 /\ (Decodable(cr) /\ ~Decodable(au)) => last'.ret = au.res]_vars

\* C19's case: a credential was added to a device that had no credentials
\* section and an authentication section with a legacy password in it
C19_Witness ==
    /\ last.op = "add_credential"
    /\ last.was = <<"absent", "decoded">>
    /\ last.ret.ok
    /\ Held(section(Self, "DeviceSpecCredentials")) = 1
    /\ Held(section(Self, "DeviceSpecAuthentication")) = 2
    /\ HeldList(section(Self, "DeviceSpecAuthentication"))[1]
          = PasswordCredential(Password("plain", "foo"))

\* C26: add_credential is all-or-nothing: when it returns an error, the
\* spec and status maps are what they were before the call
C26_AddCredentialAllOrNothing ==
    [][(last'.op = "add_credential" /\ ~last'.ret.ok)
          => (spec' = spec /\ status' = status)]_vars

(***************************************************************************)
(* A device made by Device::new on which credentials are added and read.   *)
(***************************************************************************)
NewInit == Init /\ kind = "Device"

NewNext ==
    \/ \E f \in PushFs : AddCredential(f)
    \/ \E D \in CredentialDialects : SectionCall(D)
    \/ GetCredentials
    \/ ValidateDevice
    \/ AttributeDeviceEnabled

NewSpec == NewInit /\ [][NewNext]_vars

\* both sections are absent, or both decode and to the same list
SameList(r) ==
    LET cr == section(r, "DeviceSpecCredentials")
        au == section(r, "DeviceSpecAuthentication")
    IN  IF cr.some
        THEN /\ cr.res.ok
             /\ au.some /\ au.res.ok
             /\ cr.res.v.credentials = au.res.v.credentials
        ELSE ~au.some

\* C27: on a device made by Device::new, every add_credential call succeeds
\* and leaves the credentials section and the authentication section
\* decoding to the same list, the list before the call followed by the
\* credential added, and get_credentials returns Some of that list
C27_SectionsHoldAdded ==
    [][/\ SameList(Self)
       /\ SameList(After)
       /\ last'.op = "add_credential"
             => /\ last'.ret = Ok(Unit)
                /\ section(After, "DeviceSpecAuthentication")
                      = SectionSome(Ok(DeviceSpecAuthentication(
                            Append(HeldList(section(
                                       Self, "DeviceSpecAuthentication")),
                                   last'.arg))))
       /\ (last'.op = "get_credentials"
           /\ section(Self, "DeviceSpecCredentials").some)
             => last'.out
                   = SomeCredentials(HeldList(section(
                         Self, "DeviceSpecCredentials")))]_vars

\* C27's case: after a password and then a pre-shared key were added, both
\* sections hold the two in that order and get_credentials returned them
C27_Witness ==
    /\ last.op = "get_credentials"
    /\ last.out
          = SomeCredentials(<<Pushed("push_password"), Pushed("push_psk")>>)
    /\ HeldList(section(Self, "DeviceSpecCredentials"))
          = <<Pushed("push_password"), Pushed("push_psk")>>
    /\ HeldList(section(Self, "DeviceSpecAuthentication"))
          = <<Pushed("push_password"), Pushed("push_psk")>>

====
